---- MODULE Spec2Model ----
(***************************************************************************)
(* A model of solid-state-tools: the fetch state machine (createFetched),  *)
(* the demand counter (quantum), the subscription reconciler               *)
(* (createSubscription) and the derived demand cell (derive).              *)
(*                                                                         *)
(* The reactive runtime (solid-js) is a collaborator: a signal write is    *)
(* applied at once and notifies observers when the value changed, batch()  *)
(* coalesces the writes made inside it into one notification, a            *)
(* computation runs its cleanups before each rerun and on disposal, and    *)
(* queueMicrotask() defers a task until the current synchronous pass is    *)
(* over.                                                                   *)
(***************************************************************************)
EXTENDS Integers, Sequences, FiniteSets, TLC

\* ------------------------------------------------------------------ bounds
MaxRuns == 3
MaxVal == 2
MaxErr == 2
MaxConsumers == 2
MaxReads == 2
MaxActivations == 2
MaxMicrotasks == 2

MaxPulls == 1
MaxSVal == 1
MaxObservers == 1

\* `undefined`: the value of a signal created without an initial value.
Undef == -1
Val == 1 .. MaxVal
\* The values of a subscription: the numbers 0 .. MaxSVal, of which 0 is falsy.
SVal == 0 .. MaxSVal
Err == 1 .. MaxErr

VARIABLES
    \* createFetched
    state,      \* the `state` signal
    latest,     \* the `latest` signal
    error,      \* the `error` signal
    spool,      \* the `spool` signal of createSpool: the accessor's value
    hasLatest,  \* the closure variable `hasLatest`
    invalided,  \* invalided[r]: the closure variable `invalided` of run r
    stack,      \* the runs whose winch call has not returned yet, innermost last
    disposed,   \* the computation of createFetched has been disposed of
    seen,       \* what observers were notified of during the last step
    lastOp,     \* the last step taken
    \* history of the fetch record, kept apart from the code's own flags
    lastGood,   \* value of the most recent commit of a run that was live then
    lastFail,   \* failure of the most recent run that failed while not superseded
    everCommitted, \* some run has committed while live
    everErrored,   \* some run has failed
    commits,    \* history: the commits of the last run that applied: "none", "one", "many"
    \* quantum
    counter,    \* the closure variable `counter`
    dispose,    \* the closure variable `dispose`: NoClosure, or the k-th closure track() returned
    source,     \* the value of the source accessor
    status,     \* status[c] of tracked computation c: "none", "running" or "waiting"
    cleanups,   \* cleanups[c]: the uncount cleanups computation c has registered
    microtasks, \* the number of queued microtasks
    pass,       \* "sync" while synchronous code runs, "idle" between tasks
    nActivate,  \* calls of track() so far
    nDeactivate,\* calls of a closure returned by track() so far
    lastRead,   \* what the read made in the last step returned, Undef if it made none
    lastQ,      \* the last step taken
    \* history of the demand counter
    passBase,   \* nActivate + nDeactivate when the pass began with the counter
                \* active, -1 if it began inactive
    endAttached,\* some computation held a cleanup of the accessor when the pass ended
    reattached, \* in this pass a tracked read came while every counted read was
                \* one whose decrement is queued
    \* createSubscription
    local,      \* the `local` signal
    cache,      \* the `cache` signal
    hasLocal,   \* the closure variable `hasLocal`
    subscribed, \* the `subscribed` signal
    detached,   \* the value of the memo `detached`
    feeds,      \* the calls of handler.sub whose returned dispose has not been called
    pulls,      \* the promises handler.get returned that are not settled yet
    sink,       \* the values handler.set was called with during the last step
    mode,       \* "none": the handler has no reconcile; "threeWay": it has one
    initial,    \* options.initial
    seenS,      \* what observers of local and cache were notified of during the last step
    lastS,      \* the last step taken; calls: the arguments of each call of
                \* handler.reconcile it made; edited: it accepted a remote value
                \* while local held a direct write that differed from cache
    \* history of the subscription
    everSet,    \* local has been written directly or a remote value has been accepted
    \* derive
    cell,       \* the internal signal `value`
    scopes,     \* the private roots built by track() that are not disposed of
    lastD       \* the last step taken; recomputed: the runs of the private
                \* computation it made; stale: it built a scope while the cell
                \* differed from the source
    \* createSpool (late) and the cleanups of the winch
    ,late,      \* options.late
    init,       \* the variable `init` of a late spool still holds the function
    got,        \* what the reads that returned in the last step returned, << >> if none did
    escaped,    \* the exception that left the computation in the last step
    owned,      \* the runs whose winch registered a cleanup that has not run, in order
    torn,       \* torn[r]: how often the cleanup the winch of run r registered has run
    regAt,      \* history: the teardowns that had happened when run r registered, -1 if it did not
    events,     \* the cleanups run and the winch called in the last step, in order
    lastL       \* the kind of the last step taken
    \* atom, createPair and granular
    ,isDev,     \* the build is a development build
    equals,     \* the equality policy of the signal behind the granular setter
    countSig,   \* the signal count behind the atom and the pair
    created,    \* the atoms, memos, signals and computations the last call created
    thrown,     \* the last call raised an error
    calls,      \* the calls of getter, setter, writer and fn the last call made
    ret,        \* what the last call returned
    gval,       \* the signal behind the granular setter
    gobj,       \* what the object a granular signal may hold contains
    notified,   \* the last call notified the observers of the signal it wrote
    lastA       \* the last call: kind, arguments, and the signal before it
    \* createBlinker
    ,duration,  \* the duration of the blinker, in ticks
    subject,    \* the subject of the blinker
    flagged,    \* the signal flagged
    timeout,    \* the variable `timeout` holds a timer
    timers,     \* the ages of the pending timers
    sinceChange, \* history: the ticks since the last change of the subject, up to duration
    nChanges,   \* the changes of the subject so far
    lastB       \* the last step taken
    \* createSubscription: the pulls in flight
    ,pending,   \* the pulls whose promise is not settled, by number
    resolved,   \* the pulls whose promise is settled, in the order of settling
    reported    \* the failure the caller of pull() got in the last step
    \* derive over a quantum source: the closure variables of the source
    ,srcCounter, \* `counter` of the source quantum
    srcDispose, \* `dispose` of the source quantum
    srcCleanups, \* the uncount cleanups of the source the private computation holds
    srcTasks,   \* the queued decrements of the source
    nSrcActivate,   \* the calls of the track function of the source
    nSrcDeactivate  \* the calls of the closures the track function of the source returned

fvars == << state, latest, error, spool, hasLatest, invalided, stack, disposed,
            seen, lastOp, lastGood, lastFail, everCommitted, everErrored, commits >>

qvars == << counter, dispose, source, status, cleanups, microtasks, pass,
            nActivate, nDeactivate, lastRead, lastQ, passBase, endAttached,
            reattached >>

svars == << local, cache, hasLocal, subscribed, detached, feeds, pulls, sink,
            mode, initial, seenS, lastS, everSet >>

dvars == << cell, scopes, lastD >>

lvars == << late, init, got, escaped, owned, torn, regAt, events, lastL >>

avars == << isDev, equals, countSig, created, thrown, calls, ret, gval, gobj,
           notified, lastA >>

bvars == << duration, subject, flagged, timeout, timers, sinceChange, nChanges, lastB >>

pvars == << pending, resolved, reported >>

uvars == << srcCounter, srcDispose, srcCleanups, srcTasks, nSrcActivate, nSrcDeactivate >>

vars == << fvars, qvars, svars, dvars, lvars, avars, bvars, pvars, uvars >>

FetchedState == { "unresolved", "pending", "ready", "refreshing", "errored" }

\* The number of runs started so far: the generation of the fetch record.
gen == Len(invalided)

\* Run r has been superseded: a later run has started.
superseded(r) == r < gen

\* Run r is the current run of a record whose computation still exists.
live(r) == r = gen /\ ~disposed

\* ---------------------------------------------------------------- runtime
\* The signals an observer of the fetched signal can read.
signals == [ state |-> state, latest |-> latest, error |-> error, spool |-> spool ]

RECURSIVE applyWrites(_, _)
\* The signals after the writes ws, each << signal, value >>, in order.
applyWrites(rec, ws) ==
    IF ws = << >> THEN rec
    ELSE applyWrites([rec EXCEPT ![ws[1][1]] = ws[1][2]], Tail(ws))

RECURSIVE notifyEach(_, _)
\* Writes outside a batch: observers run after every write that changed a value.
notifyEach(rec, ws) ==
    IF ws = << >> THEN << >>
    ELSE LET next == [rec EXCEPT ![ws[1][1]] = ws[1][2]]
         IN (IF next # rec THEN << next >> ELSE << >>) \o notifyEach(next, Tail(ws))

\* batch(fn): the writes of fn are applied, observers run once afterwards.
batch(rec, ws) ==
    LET final == applyWrites(rec, ws)
    IN [ rec |-> final, seen |-> IF final # rec THEN << final >> ELSE << >> ]

\* The same writes made without batch().
unbatched(rec, ws) ==
    [ rec |-> applyWrites(rec, ws), seen |-> notifyEach(rec, ws) ]

\* A cleanup that invalidates the run and leaves the accessor as it is.
cleanupKeepsValue == << >>

\* ----------------------------------------------------------- createFetched
\* onCleanup(() => { invalided = true; update(undefined); })
cleanupWrites == << << "spool", Undef >> >>

\* The two states the wrong way round.
startStateSwapped(has) == IF has THEN "pending" ELSE "refreshing"

\* setState(hasLatest ? "refreshing" : "pending")
startState(has) == IF has THEN "refreshing" ELSE "pending"

\* The commit callback without its `if (invalided) return;`.
commitUnguarded(rec, inv, has, x) ==
    LET b == batch(rec, << << "state", "ready" >>, << "latest", x >>,
                       << "spool", x >> >>)
    IN [ rec |-> b.rec, seen |-> b.seen, has |-> TRUE, applied |-> TRUE ]

\* The commit callback with its three writes made outside batch().
commitUnbatched(rec, inv, has, x) ==
    IF inv
    THEN [ rec |-> rec, seen |-> << >>, has |-> has, applied |-> FALSE ]
    ELSE LET b == unbatched(rec, << << "state", "ready" >>, << "latest", x >>,
                                << "spool", x >> >>)
         IN [ rec |-> b.rec, seen |-> b.seen, has |-> TRUE, applied |-> TRUE ]

\* The commit callback with its guard the wrong way round.
commitInverted(rec, inv, has, x) ==
    IF ~inv
    THEN [ rec |-> rec, seen |-> << >>, has |-> has, applied |-> FALSE ]
    ELSE LET b == batch(rec, << << "state", "ready" >>, << "latest", x >>,
                            << "spool", x >> >>)
         IN [ rec |-> b.rec, seen |-> b.seen, has |-> TRUE, applied |-> TRUE ]

\* A commit callback that does not set hasLatest.
commitForgets(rec, inv, has, x) ==
    IF inv
    THEN [ rec |-> rec, seen |-> << >>, has |-> has, applied |-> FALSE ]
    ELSE LET b == batch(rec, << << "state", "ready" >>, << "latest", x >>,
                            << "spool", x >> >>)
         IN [ rec |-> b.rec, seen |-> b.seen, has |-> has, applied |-> TRUE ]

\* A commit callback that leaves a record that is ready as it is.
commitFirstOnly(rec, inv, has, x) ==
    IF inv \/ rec.state = "ready"
    THEN [ rec |-> rec, seen |-> << >>, has |-> has, applied |-> FALSE ]
    ELSE LET b == batch(rec, << << "state", "ready" >>, << "latest", x >>,
                            << "spool", x >> >>)
         IN [ rec |-> b.rec, seen |-> b.seen, has |-> TRUE, applied |-> TRUE ]

\* The commit callback handed to the winch: (x) => { if (invalided) return; batch(...) }
commit(rec, inv, has, x) ==
    IF inv
    THEN [ rec |-> rec, seen |-> << >>, has |-> has, applied |-> FALSE ]
    ELSE LET b == batch(rec, << << "state", "ready" >>, << "latest", x >>,
                            << "spool", x >> >>)
         IN [ rec |-> b.rec, seen |-> b.seen, has |-> TRUE, applied |-> TRUE ]

\* A catch clause that records the failure and throws it again.
catchRethrow(rec, inv, e) ==
    LET b == batch(rec, << << "state", "errored" >>, << "error", e >> >>)
    IN [ rec |-> b.rec, seen |-> b.seen, applied |-> TRUE, raised |-> e ]

\* catch (error) { batch(() => { setState("errored"); setError(error); }); }
\* raised: the exception that leaves the try statement.
catch(rec, inv, e) ==
    LET b == batch(rec, << << "state", "errored" >>, << "error", e >> >>)
    IN [ rec |-> b.rec, seen |-> b.seen, applied |-> TRUE, raised |-> Undef ]

\* ----------------------------------------------------------------- quantum
Consumers == 1 .. MaxConsumers

\* `undefined` in the variable `dispose`.
NoClosure == 0

\* count calling track() on every read.
countAlways(q, k) ==
    [ counter |-> q.counter + 1, dispose |-> k, activated |-> TRUE,
      called |-> NoClosure ]

\* const count = () => { if (counter === 0) { dispose = untrack(track); } counter++; }
\* k names the closure track() returns if it is called.
count(q, k) ==
    [ counter |-> q.counter + 1,
      dispose |-> IF q.counter = 0 THEN k ELSE q.dispose,
      activated |-> (q.counter = 0),
      called |-> NoClosure ]

\* The task without its `if (counter === 0)`: the closure is called by every task.
uncountTaskAlways(q, reenter, k) ==
    [ counter |-> q.counter - 1, dispose |-> NoClosure, activated |-> FALSE,
      called |-> q.dispose ]

\* The task uncount queues:
\*   counter--; if (counter === 0) { dispose?.(); dispose = undefined; }
\* reenter: the closure called here makes a tracked computation read the accessor.
uncountTask(q, reenter, k) ==
    IF q.counter - 1 # 0
    THEN [ counter |-> q.counter - 1, dispose |-> q.dispose, activated |-> FALSE,
           called |-> NoClosure ]
    ELSE LET zero == [ counter |-> 0, dispose |-> q.dispose ]
             inner == IF reenter /\ q.dispose # NoClosure
                      THEN count(zero, k)
                      ELSE [ counter |-> 0, dispose |-> q.dispose, activated |-> FALSE,
                             called |-> NoClosure ]
         IN [ counter |-> inner.counter, dispose |-> NoClosure,
              activated |-> inner.activated, called |-> q.dispose ]

\* uncount running its task at once instead of queueing it.
uncountSync(q) ==
    LET t == uncountTask([ counter |-> q.counter, dispose |-> q.dispose ], FALSE, NoClosure)
    IN [ counter |-> t.counter, dispose |-> t.dispose, queued |-> q.queued,
         calls |-> q.calls + (IF t.called # NoClosure THEN 1 ELSE 0) ]

\* const uncount = () => queueMicrotask(() => { ... });
uncount(q) ==
    [ counter |-> q.counter, dispose |-> q.dispose, queued |-> q.queued + 1,
      calls |-> q.calls ]

RECURSIVE runCleanups(_, _)
\* The n cleanups onCleanup(uncount) registered for a computation run.
runCleanups(q, n) == IF n = 0 THEN q ELSE runCleanups(uncount(q), n - 1)

\* The accessor without its `if (getListener())`: every read is counted.
readAlwaysCounts(q, tracked, k, src) ==
    LET c == count(q, k)
    IN [ counter |-> c.counter, dispose |-> c.dispose, activated |-> c.activated,
         registered |-> 1, value |-> src ]

\* The accessor quantum returns: () => { if (getListener()) { count(); onCleanup(uncount); } return source(); }
read(q, tracked, k, src) ==
    LET c == IF tracked THEN count(q, k)
             ELSE [ counter |-> q.counter, dispose |-> q.dispose, activated |-> FALSE,
                    called |-> NoClosure ]
    IN [ counter |-> c.counter, dispose |-> c.dispose, activated |-> c.activated,
         registered |-> IF tracked THEN 1 ELSE 0, value |-> src ]

quantumState == [ counter |-> counter, dispose |-> dispose ]

InitQuantum ==
    /\ counter = 0
    /\ dispose = NoClosure
    /\ source \in Val
    /\ status = [ c \in Consumers |-> "none" ]
    /\ cleanups = [ c \in Consumers |-> 0 ]
    /\ microtasks = 0
    /\ pass = "idle"
    /\ nActivate = 0
    /\ nDeactivate = 0
    /\ lastRead = Undef
    /\ lastQ = [ kind |-> "init", who |-> 0, tracked |-> FALSE ]
    /\ passBase = -1
    /\ endAttached = FALSE
    /\ reattached = FALSE

\* A task of the event loop starts; the microtasks of the task before it have run.
BeginPass ==
    /\ pass = "idle"
    /\ microtasks = 0
    /\ pass' = "sync"
    /\ lastQ' = [ kind |-> "begin", who |-> 0, tracked |-> FALSE ]
    /\ passBase' = IF counter > 0 THEN nActivate + nDeactivate ELSE -1
    /\ endAttached' = FALSE
    /\ reattached' = FALSE
    /\ lastRead' = Undef
    /\ UNCHANGED << counter, dispose, source, status, cleanups, microtasks,
                    nActivate, nDeactivate >>

\* The synchronous code has run to its end.
EndPass ==
    /\ pass = "sync"
    /\ \A c \in Consumers : status[c] # "running"
    /\ pass' = "idle"
    /\ lastQ' = [ kind |-> "end", who |-> 0, tracked |-> FALSE ]
    /\ endAttached' = (\E c \in Consumers : cleanups[c] > 0)
    /\ lastRead' = Undef
    /\ UNCHANGED << counter, dispose, source, status, cleanups, microtasks,
                    nActivate, nDeactivate, passBase, reattached >>

\* A tracked computation is created and starts its first run.
Create(c) ==
    /\ pass = "sync"
    /\ status[c] = "none"
    /\ status' = [ status EXCEPT ![c] = "running" ]
    /\ lastQ' = [ kind |-> "create", who |-> c, tracked |-> FALSE ]
    /\ lastRead' = Undef
    /\ UNCHANGED << counter, dispose, source, cleanups, microtasks, pass,
                    nActivate, nDeactivate,
                    passBase, endAttached, reattached >>

\* Computation c reads the accessor during its run: getListener() is c.
TrackedRead(c) ==
    /\ pass = "sync"
    /\ status[c] = "running"
    /\ cleanups[c] < MaxReads
    /\ counter > 0 \/ nActivate < MaxActivations
    /\ LET r == read(quantumState, TRUE, nActivate + 1, source)
       IN /\ counter' = r.counter
          /\ dispose' = r.dispose
          /\ nActivate' = IF r.activated THEN nActivate + 1 ELSE nActivate
          /\ cleanups' = [ cleanups EXCEPT ![c] = @ + r.registered ]
          /\ lastRead' = r.value
    /\ lastQ' = [ kind |-> "read", who |-> c, tracked |-> TRUE ]
    /\ reattached' = (reattached \/ (counter > 0 /\ \A d \in Consumers : cleanups[d] = 0))
    /\ UNCHANGED << source, status, microtasks, pass, nDeactivate, passBase,
                    endAttached >>

\* The accessor is read outside any tracked computation: getListener() is null.
UntrackedRead ==
    /\ pass = "sync"
    /\ LET r == read(quantumState, FALSE, nActivate + 1, source)
       IN /\ counter' = r.counter
          /\ dispose' = r.dispose
          /\ nActivate' = IF r.activated THEN nActivate + 1 ELSE nActivate
          /\ lastRead' = r.value
    /\ lastQ' = [ kind |-> "read", who |-> 0, tracked |-> FALSE ]
    /\ UNCHANGED << source, status, cleanups, microtasks, pass, nDeactivate,
                    passBase, endAttached, reattached >>

\* The run of computation c ends.
Finish(c) ==
    /\ pass = "sync"
    /\ status[c] = "running"
    /\ status' = [ status EXCEPT ![c] = "waiting" ]
    /\ lastQ' = [ kind |-> "finish", who |-> c, tracked |-> FALSE ]
    /\ lastRead' = Undef
    /\ UNCHANGED << counter, dispose, source, cleanups, microtasks, pass,
                    nActivate, nDeactivate,
                    passBase, endAttached, reattached >>

\* The cleanups of computation c run: one uncount for each read it registered.
cleanUp(c) ==
    /\ microtasks + cleanups[c] <= MaxMicrotasks
    /\ LET r == runCleanups([ counter |-> counter, dispose |-> dispose,
                              queued |-> microtasks, calls |-> 0 ], cleanups[c])
       IN /\ counter' = r.counter
          /\ dispose' = r.dispose
          /\ microtasks' = r.queued
          /\ nDeactivate' = nDeactivate + r.calls
    /\ cleanups' = [ cleanups EXCEPT ![c] = 0 ]

\* Computation c runs again: its cleanups run, then its body.
RerunConsumer(c) ==
    /\ pass = "sync"
    /\ status[c] = "waiting"
    /\ cleanUp(c)
    /\ status' = [ status EXCEPT ![c] = "running" ]
    /\ lastQ' = [ kind |-> "rerun", who |-> c, tracked |-> FALSE ]
    /\ lastRead' = Undef
    /\ UNCHANGED << source, pass, nActivate, passBase, endAttached,
                    reattached >>

\* Computation c is disposed of: its cleanups run.
DisposeConsumer(c) ==
    /\ pass = "sync"
    /\ status[c] # "none"
    /\ cleanUp(c)
    /\ status' = [ status EXCEPT ![c] = "none" ]
    /\ lastQ' = [ kind |-> "dispose", who |-> c, tracked |-> FALSE ]
    /\ lastRead' = Undef
    /\ UNCHANGED << source, pass, nActivate, passBase, endAttached,
                    reattached >>

\* The source signal is written.
SetSource(v) ==
    /\ pass = "sync"
    /\ source' = v
    /\ v # source
    /\ lastQ' = [ kind |-> "source", who |-> 0, tracked |-> FALSE ]
    /\ lastRead' = Undef
    /\ UNCHANGED << counter, dispose, status, cleanups, microtasks, pass,
                    nActivate, nDeactivate,
                    passBase, endAttached, reattached >>

\* One queued microtask runs. With c # 0 the closure it calls makes computation c,
\* which holds no cleanup of the accessor, run and read the accessor.
Microtask(c) ==
    /\ pass = "idle"
    /\ microtasks > 0
    /\ c # 0 => /\ status[c] # "running"
                /\ cleanups[c] = 0
                /\ counter = 1
                /\ dispose # NoClosure
                /\ nActivate < MaxActivations
    /\ LET t == uncountTask(quantumState, c # 0, nActivate + 1)
       IN /\ counter' = t.counter
          /\ dispose' = t.dispose
          /\ nActivate' = IF t.activated THEN nActivate + 1 ELSE nActivate
          /\ nDeactivate' = IF t.called # NoClosure THEN nDeactivate + 1 ELSE nDeactivate
          /\ lastRead' = IF c # 0 THEN source ELSE Undef
    /\ microtasks' = microtasks - 1
    /\ status' = IF c # 0 THEN [ status EXCEPT ![c] = "waiting" ] ELSE status
    /\ cleanups' = IF c # 0 THEN [ cleanups EXCEPT ![c] = 1 ] ELSE cleanups
    /\ lastQ' = [ kind |-> "microtask", who |-> c, tracked |-> (c # 0) ]
    /\ UNCHANGED << source, pass, passBase, endAttached, reattached >>

TypeOK ==
    /\ state \in FetchedState
    /\ latest \in Val \cup { Undef }
    /\ error \in Err \cup { Undef }
    /\ spool \in Val \cup { Undef }
    /\ hasLatest \in BOOLEAN
    /\ invalided \in Seq(BOOLEAN) /\ Len(invalided) <= MaxRuns
    /\ disposed \in BOOLEAN

InitFetched ==
    /\ state = "unresolved"
    /\ latest \in Val \cup { Undef }
    /\ spool = latest
    /\ error = Undef
    /\ hasLatest = FALSE
    /\ invalided = << >>
    /\ stack = << >>
    /\ disposed = FALSE
    /\ seen = << >>
    /\ lastOp = [ kind |-> "init", run |-> 0, val |-> Undef, applied |-> FALSE ]
    /\ lastGood = Undef
    /\ lastFail = Undef
    /\ everCommitted = FALSE
    /\ everErrored = FALSE
    /\ commits = "none"

\* The body of the computation up to the call of the winch, for a new run:
\* the cleanup of the run before it (if any), then setState(...).
StartRun(kind, ws) ==
    LET u == unbatched(signals, ws)
    IN /\ state' = u.rec.state
       /\ spool' = u.rec.spool
       /\ seen' = u.seen
       /\ invalided' = Append([ r \in DOMAIN invalided |-> TRUE ], FALSE)
       /\ stack' = Append(stack, gen + 1)
       /\ lastOp' = [ kind |-> kind, run |-> gen + 1, val |-> Undef, applied |-> TRUE ]
       /\ commits' = "none"
       /\ UNCHANGED << latest, error, hasLatest, disposed, lastGood, lastFail,
                       everCommitted, everErrored >>

\* wind(): the first run of the computation.
Wind ==
    /\ gen = 0
    /\ ~disposed
    /\ StartRun("run", << << "state", startState(hasLatest) >> >>)

\* A dependency of the winch changed: the computation cleans up and runs again.
\* With a run still on the stack this is the rerun nested in a winch that wrote
\* one of its own dependencies outside a batch.
Rerun ==
    /\ gen >= 1
    /\ gen < MaxRuns
    /\ ~disposed
    /\ StartRun("run", cleanupWrites \o << << "state", startState(hasLatest) >> >>)

\* The winch of run r calls its update function with x, during the run or later.
Commit(r, x) ==
    /\ r \in 1 .. gen
    /\ LET c == commit(signals, invalided[r], hasLatest, x)
       IN /\ state' = c.rec.state
          /\ latest' = c.rec.latest
          /\ spool' = c.rec.spool
          /\ hasLatest' = c.has
          /\ seen' = c.seen
          /\ lastOp' = [ kind |-> "commit", run |-> r, val |-> x, applied |-> c.applied ]
          /\ commits' = IF ~c.applied THEN commits
                        ELSE IF commits = "none" THEN "one" ELSE "many"
    /\ lastGood' = IF live(r) THEN x ELSE lastGood
    /\ everCommitted' = (everCommitted \/ live(r))
    /\ UNCHANGED << error, invalided, stack, disposed, lastFail, everErrored >>

\* The winch call of the innermost run raises e: the catch clause runs.
Throw(e) ==
    /\ stack # << >>
    /\ LET r == stack[Len(stack)]
           c == catch(signals, invalided[r], e)
       IN /\ state' = c.rec.state
          /\ error' = c.rec.error
          /\ seen' = c.seen
          /\ lastOp' = [ kind |-> "throw", run |-> r, val |-> e, applied |-> c.applied ]
          /\ lastFail' = IF superseded(r) THEN lastFail ELSE e
    /\ stack' = SubSeq(stack, 1, Len(stack) - 1)
    /\ everErrored' = TRUE
    /\ UNCHANGED << latest, spool, hasLatest, invalided, disposed, lastGood,
                    everCommitted, commits >>

\* The winch call of the innermost run returns.
Return ==
    /\ stack # << >>
    /\ stack' = SubSeq(stack, 1, Len(stack) - 1)
    /\ seen' = << >>
    /\ lastOp' = [ kind |-> "return", run |-> stack[Len(stack)], val |-> Undef,
                   applied |-> FALSE ]
    /\ UNCHANGED << state, latest, error, spool, hasLatest, invalided, disposed,
                    lastGood, lastFail, everCommitted, everErrored, commits >>

\* The owner of the computation is disposed of: the cleanup of the last run runs.
Dispose ==
    /\ gen >= 1
    /\ ~disposed
    /\ disposed' = TRUE
    /\ LET u == unbatched(signals, cleanupWrites)
       IN /\ spool' = u.rec.spool
          /\ seen' = u.seen
    /\ invalided' = [ r \in DOMAIN invalided |-> TRUE ]
    /\ lastOp' = [ kind |-> "dispose", run |-> gen, val |-> Undef, applied |-> TRUE ]
    /\ UNCHANGED << state, latest, error, hasLatest, stack, lastGood, lastFail,
                    everCommitted, everErrored, commits >>

\* ------------------------------------------- createSpool (late) and cleanups
\* The accessor of a late spool calling init on every read.
spoolReadAlways(isLate, hasInit) == [ wind |-> isLate, init |-> hasInit ]

\* The accessor createSpool returns. Eager: the spool signal itself. Late:
\*   () => { init?.(); return spool(); }  with  init = () => { init = undefined; runWithOwner(owner, wind); }
\* wind: this read calls wind(); init: the variable `init` still holds the function.
spoolRead(isLate, hasInit) ==
    [ wind |-> (isLate /\ hasInit), init |-> (hasInit /\ ~isLate) ]

\* The teardowns of the computation so far: one before each rerun, one on disposal.
epoch == gen + (IF disposed THEN 1 ELSE 0)

RECURSIVE cleanupEvents(_)
\* The cleanups of a computation run in the reverse of the order of registration.
cleanupEvents(ow) ==
    IF ow = << >> THEN << >>
    ELSE << << "cleanup", ow[Len(ow)] >> >> \o cleanupEvents(SubSeq(ow, 1, Len(ow) - 1))

\* The winch run under the owner of the spool, outside the computation: its
\* cleanups are not those of the computation.
tearDownOuter(ow, tn) ==
    [ owned |-> ow, torn |-> tn, events |-> << << "cleanup", 0 >> >> ]

\* The computation is cleaned before it runs again and when it is disposed of:
\* the cleanups the winch registered with onCleanup run, then the one
\* createFetched registered first (run 0 in events), and the list is emptied.
tearDown(ow, tn) ==
    [ owned |-> << >>,
      torn |-> [ r \in DOMAIN tn |->
                   tn[r] + Cardinality({ i \in DOMAIN ow : ow[i] = r }) ],
      events |-> cleanupEvents(ow) \o << << "cleanup", 0 >> >> ]

\* What a read of the accessor and of the members state, error and latest returns.
readings == << spool, state, error, latest >>

\* The runs, values and failures of the spool specification.
MaxSpoolRuns == 2
MaxSpoolVal == 1
MaxSpoolErr == 1

InitLate ==
    /\ late \in BOOLEAN
    /\ init = late
    /\ got = << >>
    /\ escaped = Undef
    /\ owned = << >>
    /\ torn = [ r \in 1 .. MaxRuns |-> 0 ]
    /\ regAt = [ r \in 1 .. MaxRuns |-> -1 ]
    /\ events = << >>
    /\ lastL = "init"

\* createSpool without `late` calls wind() before it returns.
LWind ==
    /\ ~late
    /\ Wind
    /\ events' = << << "winch", 1 >> >>
    /\ lastL' = "wind"
    /\ got' = << >>
    /\ UNCHANGED << late, init, escaped, owned, torn, regAt >>

\* The accessor is read. The first read of a late spool calls wind().
LRead ==
    /\ late \/ gen >= 1
    /\ LET s == spoolRead(late, init)
       IN /\ init' = s.init
          /\ IF s.wind
             THEN /\ gen < MaxSpoolRuns
                  /\ StartRun("run", << << "state", startState(hasLatest) >> >>)
                  /\ events' = << << "winch", gen + 1 >> >>
                  /\ got' = << >>
             ELSE /\ UNCHANGED fvars
                  /\ events' = << >>
                  /\ got' = readings
    /\ lastL' = "read"
    /\ UNCHANGED << late, escaped, owned, torn, regAt >>

\* A dependency of the winch changed: the computation is cleaned and runs again.
LRerun ==
    /\ gen < MaxSpoolRuns
    /\ Rerun
    /\ LET t == tearDown(owned, torn)
       IN /\ owned' = t.owned
          /\ torn' = t.torn
          /\ events' = t.events \o << << "winch", gen + 1 >> >>
    /\ lastL' = "rerun"
    /\ got' = << >>
    /\ UNCHANGED << late, init, escaped, regAt >>

\* The winch whose call is innermost registers a cleanup with onCleanup.
Register ==
    /\ stack # << >>
    /\ LET r == stack[Len(stack)]
       IN /\ regAt[r] = -1
          /\ owned' = Append(owned, r)
          /\ regAt' = [ regAt EXCEPT ![r] = epoch ]
    /\ events' = << >>
    /\ lastL' = "register"
    /\ got' = << >>
    /\ UNCHANGED << fvars, late, init, escaped, torn >>

\* The winch of run r calls its update function with x.
LCommit(r, x) ==
    /\ Commit(r, x)
    /\ events' = << >>
    /\ lastL' = "commit"
    /\ got' = << >>
    /\ UNCHANGED << late, init, escaped, owned, torn, regAt >>

\* The read that called wind() returns when the call of the first winch is over.
firstReadReturns == late /\ stack = << 1 >>

\* The winch call of the innermost run raises e.
LThrow(e) ==
    /\ Throw(e)
    /\ escaped' = catch(signals, invalided[stack[Len(stack)]], e).raised
    /\ events' = << >>
    /\ lastL' = "throw"
    /\ got' = IF firstReadReturns THEN << spool', state', error', latest' >> ELSE << >>
    /\ UNCHANGED << late, init, owned, torn, regAt >>

\* The winch call of the innermost run returns.
LReturn ==
    /\ Return
    /\ events' = << >>
    /\ lastL' = "return"
    /\ got' = IF firstReadReturns THEN readings ELSE << >>
    /\ UNCHANGED << late, init, escaped, owned, torn, regAt >>

\* The owner of the computation is disposed of: the computation is cleaned.
LDispose ==
    /\ Dispose
    /\ LET t == tearDown(owned, torn)
       IN /\ owned' = t.owned
          /\ torn' = t.torn
          /\ events' = t.events
    /\ lastL' = "dispose"
    /\ got' = << >>
    /\ UNCHANGED << late, init, escaped, regAt >>

\* --------------------------------- atom, createPair, granular (construction and calls)
\* Values of the adapters: undefined, the numbers, two functions and one object.
MaxCount == 1
MaxArgs == 2
Num == 0 .. MaxCount
\* x => x + 2 as a value (createPair); on a number cell, x => x + 1 reduced to Num.
FnInc == 100
\* x => x.push(...): changes its argument in place and returns the new length.
FnPush == 101
\* The object a granular signal may hold; objContent is what it holds.
Obj == 200
isFunction(v) == v \in { FnInc, FnPush }
isObject(v) == v = Obj

AtomShape == { "notIterable", "notArray", "getterNotFn", "setterNotFn", "ok" }
PairShape == { "getterNotFn", "setterNotFn", "ok" }
BlinkerShape == { "subjectNotFn", "durationNotNumber", "ok" }

\* atom without the checks of the development build.
atomNewUnchecked(dev, shape) ==
    IF shape = "notIterable"
    THEN [ thrown |-> TRUE, created |-> 0 ]
    ELSE [ thrown |-> FALSE, created |-> 1 ]

\* atom(signal): the checks under isDev, then the destructuring of the pair and
\* Object.assign. created: the atoms, memos and signals created by the call.
atomNew(dev, shape) ==
    IF dev /\ shape # "ok"
    THEN [ thrown |-> TRUE, created |-> 0 ]
    ELSE atomNewUnchecked(dev, shape)

\* createPair(getter, setter, options): the checks under isDev, then
\* createMemo(getter) unless options.memoized is false (the memo calls getter at once).
createPairNew(dev, shape, memoized) ==
    IF dev /\ shape # "ok"
    THEN [ thrown |-> TRUE, created |-> 0 ]
    ELSE [ thrown |-> (memoized /\ shape = "getterNotFn"),
           created |-> IF memoized THEN 1 ELSE 0 ]

\* createBlinker(subject, duration): the checks under isDev, then createSignal
\* and createComputed(on(subject, ...)), which calls subject at once.
createBlinkerNew(dev, shape) ==
    IF dev /\ shape # "ok"
    THEN [ thrown |-> TRUE, created |-> 0 ]
    ELSE [ thrown |-> (shape = "subjectNotFn"), created |-> 2 ]

\* An atom that takes an undefined first argument for a read.
atomCallByValue(c, args) ==
    IF args = << >> \/ args[1] = Undef
    THEN [ count |-> c, ret |-> c, calls |-> << << "getter", << >> >> >> ]
    ELSE [ count |-> args[1], ret |-> args[1], calls |-> << << "setter", args >> >> ]

\* (...args) => (args.length === 0) ? getter() : setter(...args)
\* over the signal [ count, setCount ]: the setter stores its first argument and returns it.
atomCall(c, args) ==
    IF Len(args) = 0
    THEN [ count |-> c, ret |-> c, calls |-> << << "getter", << >> >> >> ]
    ELSE [ count |-> args[1], ret |-> args[1], calls |-> << << "setter", args >> >> ]

\* A pair setter that hands its source to the writer as it is.
pairSetLiteral(c, src) ==
    [ count |-> src \div 2, ret |-> src,
      calls |-> << << "writer", << src >> >> >> ]

\* The setter of createPair(() => count() * 2, (x) => setCount(x / 2)):
\*   value = (typeof source === "function") ? source(untrack(get)) : source;
\*   setter(value); return value;
pairSet(c, src) ==
    LET value == IF isFunction(src) THEN (c * 2) + 2 ELSE src
    IN [ count |-> value \div 2, ret |-> value,
         calls |-> (IF isFunction(src) THEN << << "get", << "untracked" >> >> >> ELSE << >>)
                   \o << << "writer", << value >> >> >> ]

\* The equality policies of a signal: the default ===, `equals: false`, and
\* sameObjectExclusionComparator: typeof next !== "object" && prev === next.
Policy == { "strict", "never", "exclude" }
equal(policy, prev, next) ==
    CASE policy = "strict" -> prev = next
      [] policy = "never" -> FALSE
      [] OTHER -> ~isObject(next) /\ prev = next

\* The functions handed to map and mod, applied to x (obj: what the object holds).
apply(fn, x, obj) ==
    IF fn = FnPush
    THEN IF isObject(x) THEN [ res |-> (obj + 1) % (MaxCount + 1),
                               obj |-> (obj + 1) % (MaxCount + 1) ]
         ELSE [ res |-> x, obj |-> obj ]
    ELSE IF x \in Num THEN [ res |-> (x + 1) % (MaxCount + 1), obj |-> obj ]
         ELSE [ res |-> 0, obj |-> obj ]

\* A write of the signal: the value is stored and the observers are notified
\* unless the policy takes it for equal to the current one.
writeSignal(policy, prev, next) ==
    IF equal(policy, prev, next)
    THEN [ val |-> prev, notified |-> FALSE ]
    ELSE [ val |-> next, notified |-> TRUE ]

\* set handing its value to the setter as it is: a function is taken for an updater.
granularSetDirect(policy, g, v) ==
    IF isFunction(v)
    THEN LET a == apply(v, g.val, g.obj)
             w == writeSignal(policy, g.val, a.res)
         IN [ val |-> w.val, obj |-> a.obj, notified |-> w.notified, ret |-> Undef,
              calls |-> << << v, << g.val >> >> >> ]
    ELSE LET w == writeSignal(policy, g.val, v)
         IN [ val |-> w.val, obj |-> g.obj, notified |-> w.notified, ret |-> Undef,
              calls |-> << >> ]

\* set(value) { setter(() => value); }
granularSet(policy, g, v) ==
    LET w == writeSignal(policy, g.val, v)
    IN [ val |-> w.val, obj |-> g.obj, notified |-> w.notified, ret |-> Undef,
         calls |-> << >> ]

\* map(fn) { return setter((x) => fn(x)); }
granularMap(policy, g, fn) ==
    LET a == apply(fn, g.val, g.obj)
        w == writeSignal(policy, g.val, a.res)
    IN [ val |-> w.val, obj |-> a.obj, notified |-> w.notified, ret |-> a.res,
         calls |-> << << fn, << g.val >> >> >> ]

\* mod(fn) { let value; setter((x) => { value = fn(x); return x; }); return value; }
granularMod(policy, g, fn) ==
    LET a == apply(fn, g.val, g.obj)
        w == writeSignal(policy, g.val, g.val)
    IN [ val |-> w.val, obj |-> a.obj, notified |-> w.notified, ret |-> a.res,
         calls |-> << << fn, << g.val >> >> >> ]

granularState == [ val |-> gval, obj |-> gobj ]

InitAdapters ==
    /\ isDev \in BOOLEAN
    /\ equals \in Policy
    /\ countSig = 0
    /\ created = 0
    /\ thrown = FALSE
    /\ calls = << >>
    /\ ret = Undef
    /\ gval = 0
    /\ gobj = 0
    /\ notified = FALSE
    /\ lastA = [ kind |-> "init", shape |-> "ok", args |-> << >>, before |-> 0 ]

arest == << isDev, equals >>

\* The outcome of a construction call.
Construct(kind, shape, r) ==
    /\ thrown' = r.thrown
    /\ created' = r.created
    /\ calls' = << >>
    /\ ret' = Undef
    /\ notified' = FALSE
    /\ lastA' = [ kind |-> kind, shape |-> shape, args |-> << >>, before |-> countSig ]
    /\ UNCHANGED << countSig, gval, gobj, arest >>

\* atom(signal) is called.
AtomNew(shape) == Construct("atom", shape, atomNew(isDev, shape))

\* createPair(getter, setter, options) is called.
CreatePairNew(shape, memoized) ==
    Construct("createPair", shape, createPairNew(isDev, shape, memoized))

\* createBlinker(subject, duration) is called.
CreateBlinkerNew(shape) ==
    Construct("createBlinker", shape, createBlinkerNew(isDev, shape))

\* The outcome of a call on the signal count.
CountCall(kind, args, r) ==
    /\ countSig' = r.count
    /\ ret' = r.ret
    /\ calls' = r.calls
    /\ thrown' = FALSE
    /\ created' = 0
    /\ notified' = (r.count # countSig)
    /\ lastA' = [ kind |-> kind, shape |-> "ok", args |-> args, before |-> countSig ]
    /\ UNCHANGED << gval, gobj, arest >>

\* The atom atom([ count, setCount ]) is called with args.
AtomCall(args) ==
    CountCall("call", args, atomCall(countSig, args))

\* The setter of createPair(() => count() * 2, (x) => setCount(x / 2)) is called
\* with a number or a function.
PairSet(src) ==
    /\ countSig # Undef
    /\ (IF isFunction(src) THEN (countSig * 2) + 2 ELSE src) <= 2 * MaxCount
    /\ CountCall("pairSet", << src >>, pairSet(countSig, src))

\* The outcome of a call of a member of the granular setter.
GranularCall(kind, arg, r) ==
    /\ gval' = r.val
    /\ gobj' = r.obj
    /\ notified' = r.notified
    /\ ret' = r.ret
    /\ calls' = r.calls
    /\ thrown' = FALSE
    /\ created' = 0
    /\ lastA' = [ kind |-> kind, shape |-> "ok", args |-> << arg, gobj >>, before |-> gval ]
    /\ UNCHANGED << countSig, arest >>

GranularSet(v) == GranularCall("set", v, granularSet(equals, granularState, v))

GranularMap(fn) == GranularCall("map", fn, granularMap(equals, granularState, fn))

GranularMod(fn) == GranularCall("mod", fn, granularMod(equals, granularState, fn))

\* ----------------------------------------------------------------- createBlinker
\* Time is counted in ticks; a timer is known by its age, counted up to duration.
MaxDuration == 2
MaxChanges == 4
MaxSubject == 2

\* The callback of the computation without clearTimeout: the pending timer stays.
blinkNoClear(b) ==
    [ flagged |-> TRUE, timeout |-> TRUE, timers |-> b.timers \cup { 0 },
      set |-> ~b.timeout, cleared |-> FALSE ]

\* on(subject, () => {
\*   if (timeout !== undefined) { clearTimeout(timeout); } else { setFlagged(true); }
\*   timeout = setTimeout(() => { setFlagged(false); timeout = undefined; }, duration);
\* }, { defer: true })
\* timers: the ages of the pending timers; the timer of `timeout` is the youngest.
\* set: setFlagged(true) was called; cleared: clearTimeout was called.
blink(b) ==
    LET youngest == { t \in b.timers : \A u \in b.timers : t <= u }
    IN [ flagged |-> (IF b.timeout THEN b.flagged ELSE TRUE),
         timeout |-> TRUE,
         timers |-> (IF b.timeout THEN b.timers \ youngest ELSE b.timers) \cup { 0 },
         set |-> ~b.timeout,
         cleared |-> b.timeout ]

\* A timer callback that forgets setFlagged(false).
expireKeepsFlag(b, t) ==
    [ flagged |-> b.flagged, timeout |-> FALSE, timers |-> b.timers \ { t } ]

\* The callback of a timer of age t: setFlagged(false); timeout = undefined;
expire(b, t) ==
    [ flagged |-> FALSE, timeout |-> FALSE, timers |-> b.timers \ { t } ]

blinkerState == [ flagged |-> flagged, timeout |-> timeout, timers |-> timers ]

\* One more tick, counted up to the duration.
older(t) == IF t < duration THEN t + 1 ELSE t

InitBlinker ==
    /\ duration \in 1 .. MaxDuration
    /\ subject = 0
    /\ flagged = FALSE
    /\ timeout = FALSE
    /\ timers = { }
    /\ sinceChange = duration
    /\ nChanges = 0
    /\ lastB = [ kind |-> "init", set |-> FALSE, cleared |-> FALSE, wasFlagged |-> FALSE ]

\* The subject is written with v. A value equal to the current one notifies nobody;
\* another runs the callback of the computation.
Change(v) ==
    /\ subject' = v
    /\ IF v = subject
       THEN /\ lastB' = [ kind |-> "same", set |-> FALSE, cleared |-> FALSE,
                          wasFlagged |-> flagged ]
            /\ UNCHANGED << flagged, timeout, timers, sinceChange, nChanges >>
       ELSE /\ nChanges < MaxChanges
            /\ nChanges' = nChanges + 1
            /\ LET b == blink(blinkerState)
               IN /\ flagged' = b.flagged
                  /\ timeout' = b.timeout
                  /\ timers' = b.timers
                  /\ lastB' = [ kind |-> "change", set |-> b.set, cleared |-> b.cleared,
                                wasFlagged |-> flagged ]
            /\ sinceChange' = 0
    /\ UNCHANGED duration

\* A millisecond passes.
Tick ==
    /\ sinceChange < duration \/ \E t \in timers : t < duration
    /\ timers' = { older(t) : t \in timers }
    /\ sinceChange' = older(sinceChange)
    /\ lastB' = [ kind |-> "tick", set |-> FALSE, cleared |-> FALSE, wasFlagged |-> flagged ]
    /\ UNCHANGED << duration, subject, flagged, timeout, nChanges >>

\* A timer that has reached its duration runs its callback.
Expire ==
    /\ \E t \in timers :
          /\ t >= duration
          /\ LET b == expire(blinkerState, t)
             IN /\ flagged' = b.flagged
                /\ timeout' = b.timeout
                /\ timers' = b.timers
    /\ lastB' = [ kind |-> "expire", set |-> FALSE, cleared |-> FALSE, wasFlagged |-> flagged ]
    /\ UNCHANGED << duration, subject, sinceChange, nChanges >>

\* ------------------------------------------------------ createSubscription
\* !!x, for x a number or undefined.
truthy(x) == x # Undef /\ x # 0

\* hasLocal set whenever options.initial is given, falsy or not.
hasLocalGiven(given) == given # Undef

\* let hasLocal = !!options?.initial;
hasLocalInit(given) == truthy(given)

\* A reconcile a handler may supply: a local edit is kept, else the remote value is taken.
threeWay(remote, l, c) == IF l = c THEN remote ELSE l

\* The default returning the local value instead of the remote one.
reconcileLocal(m, remote, l, c) == IF m = "none" THEN l ELSE threeWay(remote, l, c)

\* handler.reconcile ? handler.reconcile(remote, untrack(local), untrack(cache)) : remote
reconcile(m, remote, l, c) == IF m = "none" THEN remote ELSE threeWay(remote, l, c)

\* A memo that does not track cache: it compares with the value cache had at first.
detachedUntracked(l, c) == l # Undef

\* const detached = createMemo(() => local() !== cache());
detachedMemo(l, c) == l # c

\* The tracked computations that read the subscription.
Observers == 1 .. MaxObservers

\* The two signals updateFromRemote writes, as an observer reads them.
subSignals == [ local |-> local, cache |-> cache ]

\* updateFromRemote with its two writes made outside batch().
updateFromRemoteUnbatched(rec, has, m, remote) ==
    LET reconciled == reconcile(m, remote, rec.local, rec.cache)
        b == unbatched(rec, << << "local", reconciled >>, << "cache", reconciled >> >>)
    IN [ rec |-> b.rec, seen |-> b.seen, has |-> TRUE, value |-> reconciled,
         calls |-> IF m = "none" THEN << >>
                   ELSE << << remote, rec.local, rec.cache >> >> ]

\* const updateFromRemote = (remote) => batch(() => { const reconciled = ...;
\*   hasLocal = true; setLocal(() => reconciled); setCache(() => reconciled);
\*   return reconciled; });
\* calls: the arguments of each call of handler.reconcile.
updateFromRemote(rec, has, m, remote) ==
    LET reconciled == reconcile(m, remote, rec.local, rec.cache)
        b == batch(rec, << << "local", reconciled >>, << "cache", reconciled >> >>)
    IN [ rec |-> b.rec, seen |-> b.seen, has |-> TRUE, value |-> reconciled,
         calls |-> IF m = "none" THEN << >>
                   ELSE << << remote, rec.local, rec.cache >> >> ]

\* handler.sub handed setCache instead of updateFromRemote.
feedCallbackCacheOnly(rec, has, m, u) ==
    LET b == batch(rec, << << "cache", u >> >>)
    IN [ rec |-> b.rec, seen |-> b.seen, has |-> has, value |-> u, calls |-> << >> ]

\* The function handed to the handler: handler.sub(updateFromRemote)
feedCallback(rec, has, m, u) == updateFromRemote(rec, has, m, u)

\* The setter writing cache as well.
setterBoth(rec, has, v) ==
    LET b == batch(rec, << << "local", v >>, << "cache", v >> >>)
    IN [ rec |-> b.rec, seen |-> b.seen, has |-> TRUE ]

\* (...args) => { hasLocal = true; return setLocal(...args); }
setter(rec, has, v) ==
    LET b == unbatched(rec, << << "local", v >> >>)
    IN [ rec |-> b.rec, seen |-> b.seen, has |-> TRUE ]

\* push sending cache.
pushCache(rec, has) == IF ~has THEN << >> ELSE << rec.cache >>

\* push() { if (!hasLocal) return; const value = handler.set(untrack(local)!); ... }
\* The values handler.set is called with.
push(rec, has) == IF ~has THEN << >> ELSE << rec.local >>

\* The track function of the subscription's quantum:
\*   () => { const dispose = handler.sub(updateFromRemote); setSubscribed(true); return ...; }
\* u: the value handler.sub delivers before it returns, Undef if it delivers none.
\* k names this call of handler.sub.
subTrack(rec, has, m, u, fs, k) ==
    LET d == IF u # Undef THEN feedCallback(rec, has, m, u)
             ELSE [ rec |-> rec, seen |-> << >>, has |-> has, value |-> Undef,
                    calls |-> << >> ]
    IN [ rec |-> d.rec, seen |-> d.seen, has |-> d.has, calls |-> d.calls,
         subscribed |-> TRUE, feeds |-> fs \cup { k }, accepted |-> (u # Undef) ]

\* A read that does not call track().
noTrack(rec, has, sub, fs) ==
    [ rec |-> rec, seen |-> << >>, has |-> has, calls |-> << >>,
      subscribed |-> sub, feeds |-> fs, accepted |-> FALSE ]

\* The closure track returns: () => { setSubscribed(false); dispose(); }
\* inner: the flag and the feeds once the observers of setSubscribed(false) have run.
subClosure(inner, called) ==
    [ subscribed |-> inner.subscribed, feeds |-> inner.feeds \ { called } ]

InitSubscription ==
    /\ initial \in SVal \cup { Undef }
    /\ mode \in { "none", "threeWay" }
    /\ local = initial
    /\ hasLocal = hasLocalInit(initial)
    /\ cache = Undef
    /\ subscribed = FALSE
    /\ detached = detachedMemo(initial, Undef)
    /\ feeds = { }
    /\ pulls = 0
    /\ sink = << >>
    /\ seenS = << >>
    /\ lastS = [ kind |-> "init", val |-> Undef, calls |-> << >>, edited |-> FALSE ]
    /\ everSet = FALSE

\* The quantum variables the subscription's steps leave alone.
qrest == << source, passBase, endAttached, reattached, lastQ >>

\* A task of the event loop starts.
SBegin ==
    /\ pass = "idle"
    /\ microtasks = 0
    /\ pass' = "sync"
    /\ lastS' = [ kind |-> "begin", val |-> Undef, calls |-> << >>,
                  edited |-> FALSE ]
    /\ lastRead' = Undef
    /\ sink' = << >>
    /\ seenS' = << >>
    /\ UNCHANGED << counter, dispose, status, cleanups, microtasks, nActivate,
                    nDeactivate, qrest, local, cache, hasLocal, subscribed,
                    detached, feeds, pulls, mode, initial, everSet >>

\* The synchronous code has run to its end.
SEnd ==
    /\ pass = "sync"
    /\ pass' = "idle"
    /\ lastS' = [ kind |-> "end", val |-> Undef, calls |-> << >>,
                  edited |-> FALSE ]
    /\ lastRead' = Undef
    /\ sink' = << >>
    /\ seenS' = << >>
    /\ UNCHANGED << counter, dispose, status, cleanups, microtasks, nActivate,
                    nDeactivate, qrest, local, cache, hasLocal, subscribed,
                    detached, feeds, pulls, mode, initial, everSet >>

\* Tracked computation c runs, for the first time or again: its cleanups run, then
\* its body reads the subscription once. u: what handler.sub delivers before it
\* returns, if this read calls it.
SRun(c, u) ==
    /\ pass = "sync"
    /\ microtasks + cleanups[c] <= MaxMicrotasks
    /\ LET q == runCleanups([ counter |-> counter, dispose |-> dispose,
                              queued |-> microtasks, calls |-> 0 ], cleanups[c])
           qs == [ counter |-> q.counter, dispose |-> q.dispose ]
           k == nActivate + 1
           t == IF count(qs, k).activated
                THEN subTrack(subSignals, hasLocal, mode, u, feeds, k)
                ELSE noTrack(subSignals, hasLocal, subscribed, feeds)
           r == read(qs, TRUE, k, t.rec.local)
       IN /\ r.activated => nActivate < MaxActivations
          /\ ~r.activated => u = Undef
          /\ counter' = r.counter
          /\ dispose' = r.dispose
          /\ microtasks' = q.queued
          /\ nActivate' = IF r.activated THEN k ELSE nActivate
          /\ cleanups' = [ cleanups EXCEPT ![c] = r.registered ]
          /\ lastRead' = r.value
          /\ local' = t.rec.local
          /\ cache' = t.rec.cache
          /\ hasLocal' = t.has
          /\ subscribed' = t.subscribed
          /\ feeds' = t.feeds
          /\ detached' = detachedMemo(t.rec.local, t.rec.cache)
          /\ seenS' = t.seen
          /\ everSet' = (everSet \/ t.accepted)
          /\ lastS' = [ kind |-> IF r.activated THEN "activate" ELSE "run",
                        val |-> u, calls |-> t.calls,
                        edited |-> (t.accepted /\ detached /\ everSet) ]
    /\ status' = [ status EXCEPT ![c] = "waiting" ]
    /\ sink' = << >>
    /\ UNCHANGED << nDeactivate, pass, qrest, pulls, mode, initial >>

\* Computation c is disposed of: its cleanups run.
SDispose(c) ==
    /\ pass = "sync"
    /\ status[c] = "waiting"
    /\ cleanUp(c)
    /\ status' = [ status EXCEPT ![c] = "none" ]
    /\ lastS' = [ kind |-> "dispose", val |-> Undef, calls |-> << >>,
                  edited |-> FALSE ]
    /\ lastRead' = Undef
    /\ sink' = << >>
    /\ seenS' = << >>
    /\ UNCHANGED << pass, nActivate, qrest, local, cache, hasLocal, subscribed,
                    detached, feeds, pulls, mode, initial, everSet >>

\* The subscription is read outside any tracked computation.
SUntrackedRead ==
    /\ pass = "sync"
    /\ LET r == read(quantumState, FALSE, nActivate + 1, local)
       IN /\ counter' = r.counter
          /\ dispose' = r.dispose
          /\ nActivate' = IF r.activated THEN nActivate + 1 ELSE nActivate
          /\ lastRead' = r.value
    /\ lastS' = [ kind |-> "read", val |-> Undef, calls |-> << >>,
                  edited |-> FALSE ]
    /\ sink' = << >>
    /\ seenS' = << >>
    /\ UNCHANGED << status, cleanups, microtasks, pass, nDeactivate, qrest, local,
                    cache, hasLocal, subscribed, detached, feeds, pulls, mode,
                    initial, everSet >>

\* The subscription is written directly: subscription(v).
Write(v) ==
    /\ pass = "sync"
    /\ LET s == setter(subSignals, hasLocal, v)
       IN /\ local' = s.rec.local
          /\ cache' = s.rec.cache
          /\ hasLocal' = s.has
          /\ detached' = detachedMemo(s.rec.local, s.rec.cache)
          /\ seenS' = s.seen
    /\ everSet' = TRUE
    /\ lastS' = [ kind |-> "write", val |-> v, calls |-> << >>, edited |-> FALSE ]
    /\ lastRead' = Undef
    /\ sink' = << >>
    /\ UNCHANGED << counter, dispose, status, cleanups, microtasks, pass, nActivate,
                    nDeactivate, qrest, subscribed, feeds, pulls, mode, initial >>

\* pull() is called with fewer than n pulls pending: handler.get returns a promise.
PullStartBelow(n) ==
    /\ pass = "sync"
    /\ pulls < n
    /\ pulls' = pulls + 1
    /\ lastS' = [ kind |-> "get", val |-> Undef, calls |-> << >>,
                  edited |-> FALSE ]
    /\ lastRead' = Undef
    /\ sink' = << >>
    /\ seenS' = << >>
    /\ UNCHANGED << counter, dispose, status, cleanups, microtasks, pass, nActivate,
                    nDeactivate, qrest, local, cache, hasLocal, subscribed,
                    detached, feeds, mode, initial, everSet >>

\* pull() is called: handler.get returns a promise.
PullStart == PullStartBelow(MaxPulls)

\* A promise handler.get returned resolves with r: value.then((x) => { resolve(updateFromRemote(x)); })
PullResolve(r) ==
    /\ pulls > 0
    /\ pulls' = pulls - 1
    /\ LET d == updateFromRemote(subSignals, hasLocal, mode, r)
       IN /\ local' = d.rec.local
          /\ cache' = d.rec.cache
          /\ hasLocal' = d.has
          /\ detached' = detachedMemo(d.rec.local, d.rec.cache)
          /\ seenS' = d.seen
          /\ lastS' = [ kind |-> "pull", val |-> r, calls |-> d.calls,
                        edited |-> (detached /\ everSet) ]
    /\ everSet' = TRUE
    /\ lastRead' = Undef
    /\ sink' = << >>
    /\ UNCHANGED << counter, dispose, status, cleanups, microtasks, pass, nActivate,
                    nDeactivate, qrest, subscribed, feeds, mode, initial >>

\* push() is called.
Push ==
    /\ pass = "sync"
    /\ sink' = push(subSignals, hasLocal)
    /\ lastS' = [ kind |-> "push", val |-> Undef, calls |-> << >>,
                  edited |-> FALSE ]
    /\ lastRead' = Undef
    /\ seenS' = << >>
    /\ UNCHANGED << counter, dispose, status, cleanups, microtasks, pass, nActivate,
                    nDeactivate, qrest, local, cache, hasLocal, subscribed,
                    detached, feeds, pulls, mode, initial, everSet >>

\* The handler delivers the update u to the function handler.sub was given.
FeedUpdate(u) ==
    /\ pass = "sync"
    /\ feeds # { }
    /\ LET d == feedCallback(subSignals, hasLocal, mode, u)
       IN /\ local' = d.rec.local
          /\ cache' = d.rec.cache
          /\ hasLocal' = d.has
          /\ detached' = detachedMemo(d.rec.local, d.rec.cache)
          /\ seenS' = d.seen
          /\ lastS' = [ kind |-> "feed", val |-> u, calls |-> d.calls,
                        edited |-> (detached /\ everSet) ]
    /\ everSet' = TRUE
    /\ lastRead' = Undef
    /\ sink' = << >>
    /\ UNCHANGED << counter, dispose, status, cleanups, microtasks, pass, nActivate,
                    nDeactivate, qrest, subscribed, feeds, pulls, mode, initial >>

\* One queued microtask runs. With c # 0 the closure's setSubscribed(false) makes
\* an observer of subscribed() run computation c, which holds no cleanup of the
\* subscription, and c reads the subscription.
SMicrotask(c) ==
    /\ pass = "idle"
    /\ microtasks > 0
    /\ c # 0 => /\ cleanups[c] = 0
                /\ counter = 1
                /\ dispose # NoClosure
                /\ nActivate < MaxActivations
    /\ LET k == nActivate + 1
           t == uncountTask(quantumState, c # 0, k)
           off == noTrack(subSignals, hasLocal, FALSE, feeds)
           inner == IF t.activated
                    THEN subTrack(subSignals, hasLocal, mode, Undef, feeds, k)
                    ELSE off
           after == IF t.called # NoClosure THEN subClosure(inner, t.called)
                    ELSE [ subscribed |-> subscribed, feeds |-> feeds ]
       IN /\ counter' = t.counter
          /\ dispose' = t.dispose
          /\ nActivate' = IF t.activated THEN k ELSE nActivate
          /\ nDeactivate' = IF t.called # NoClosure THEN nDeactivate + 1 ELSE nDeactivate
          /\ subscribed' = after.subscribed
          /\ feeds' = after.feeds
    /\ lastRead' = IF c # 0 THEN local ELSE Undef
    /\ microtasks' = microtasks - 1
    /\ status' = IF c # 0 THEN [ status EXCEPT ![c] = "waiting" ] ELSE status
    /\ cleanups' = IF c # 0 THEN [ cleanups EXCEPT ![c] = 1 ] ELSE cleanups
    /\ lastS' = [ kind |-> IF c # 0 THEN "reenter" ELSE "microtask", val |-> Undef,
                  calls |-> << >>, edited |-> FALSE ]
    /\ sink' = << >>
    /\ seenS' = << >>
    /\ UNCHANGED << pass, qrest, local, cache, hasLocal, detached, pulls, mode,
                    initial, everSet >>

\* ------------------------------------------- createSubscription: pulls in flight
\* The pulls of the pulls specification, numbered in the order of their calls.
MaxOverlap == 2

\* A then callback that drops the value of a pull that is not the last one called.
pullAcceptsLatest(id, pend, res) == id = Cardinality(pend) + Len(res)

\* value.then((x) => { resolve(updateFromRemote(x)); }): the callback of every
\* pull calls updateFromRemote, whatever pulls were called or resolved meanwhile.
pullAccepts(id, pend, res) == TRUE

\* A pull that marks local as initialized before it has a value.
pullFailedMarks(rec, has, e) == [ rec |-> rec, has |-> TRUE, reported |-> e ]

\* handler.get throws, or its promise rejects with e (value.catch(reject)):
\* updateFromRemote is not called and the caller of pull() gets e.
pullFailed(rec, has, e) == [ rec |-> rec, has |-> has, reported |-> e ]

InitPulls ==
    /\ pending = { }
    /\ resolved = << >>
    /\ reported = Undef

\* pull() is called and handler.get returns a promise, others pending or not.
PPull ==
    /\ Cardinality(pending) + Len(resolved) < MaxOverlap
    /\ PullStartBelow(MaxOverlap)
    /\ pending' = pending \cup { Cardinality(pending) + Len(resolved) + 1 }
    /\ reported' = Undef
    /\ UNCHANGED resolved

\* The promise of pull id resolves with r.
PResolve(id, r) ==
    /\ id \in pending
    /\ IF pullAccepts(id, pending, resolved)
       THEN PullResolve(r)
       ELSE /\ pulls' = pulls - 1
            /\ lastS' = [ kind |-> "pull", val |-> r, calls |-> << >>, edited |-> FALSE ]
            /\ lastRead' = Undef
            /\ sink' = << >>
            /\ seenS' = << >>
            /\ UNCHANGED << counter, dispose, status, cleanups, microtasks, pass,
                            nActivate, nDeactivate, qrest, local, cache, hasLocal,
                            subscribed, detached, feeds, mode, initial, everSet >>
    /\ pending' = pending \ { id }
    /\ resolved' = Append(resolved, id)
    /\ reported' = Undef

\* The outcome of a pull that fails with e.
PullFails(kind, e) ==
    LET f == pullFailed(subSignals, hasLocal, e)
    IN /\ local' = f.rec.local
       /\ cache' = f.rec.cache
       /\ hasLocal' = f.has
       /\ detached' = detachedMemo(f.rec.local, f.rec.cache)
       /\ reported' = f.reported
       /\ lastS' = [ kind |-> kind, val |-> e, calls |-> << >>, edited |-> FALSE ]
       /\ lastRead' = Undef
       /\ sink' = << >>
       /\ seenS' = << >>
       /\ UNCHANGED << counter, dispose, status, cleanups, microtasks, pass, nActivate,
                       nDeactivate, qrest, subscribed, feeds, mode, initial, everSet >>

\* The promise of pull id rejects with e.
PReject(id, e) ==
    /\ id \in pending
    /\ pulls' = pulls - 1
    /\ PullFails("reject", e)
    /\ pending' = pending \ { id }
    /\ resolved' = Append(resolved, id)

\* pull() is called and handler.get throws e.
PThrow(e) ==
    /\ pass = "sync"
    /\ PullFails("throw", e)
    /\ UNCHANGED << pulls, pending, resolved >>

\* A direct write, between the pulls.
PWrite(v) == Write(v) /\ reported' = Undef /\ UNCHANGED << pending, resolved >>

\* push() is called.
PPush == Push /\ reported' = Undef /\ UNCHANGED << pending, resolved >>

\* A task of the event loop starts.
PBegin == SBegin /\ reported' = Undef /\ UNCHANGED << pending, resolved >>

\* The synchronous code has run to its end.
PEnd == SEnd /\ reported' = Undef /\ UNCHANGED << pending, resolved >>

\* ------------------------------------------------------------------ derive
\* The private computation deferring its first run: the scope is built, nothing is copied.
deriveTrackDeferred(c, src, sc, k) ==
    [ cell |-> c, scopes |-> sc \cup { k }, recomputed |-> 0 ]

\* The track function of derive's quantum:
\*   () => createRoot((dispose) => { createComputed(() => void setValue(source)); return dispose; })
\* The root k is built and its computation runs once, copying the source.
deriveTrack(c, src, sc, k) ==
    [ cell |-> src, scopes |-> sc \cup { k }, recomputed |-> 1 ]

\* The computation living outside any scope: it copies every change of the source.
sourceChangedAlways(c, src, sc) == [ cell |-> src, recomputed |-> 1 ]

\* The source has changed to src: the computation of each live root runs again,
\* createComputed(() => void setValue(source)).
sourceChanged(c, src, sc) ==
    [ cell |-> IF sc # { } THEN src ELSE c, recomputed |-> Cardinality(sc) ]

\* The closure track returns: the dispose of the root.
deriveClosure(sc, called) == sc \ { called }

InitDerive ==
    /\ cell = source
    /\ scopes = { }
    /\ lastD = [ kind |-> "init", recomputed |-> 0, stale |-> FALSE ]

\* The variables of the demand counter the steps of a derived cell leave alone.
drest == << passBase, endAttached, reattached, lastQ >>

\* A task of the event loop starts.
DBegin ==
    /\ pass = "idle"
    /\ microtasks = 0
    /\ pass' = "sync"
    /\ lastD' = [ kind |-> "begin", recomputed |-> 0, stale |-> FALSE ]
    /\ lastRead' = Undef
    /\ UNCHANGED << counter, dispose, source, status, cleanups, microtasks,
                    nActivate, nDeactivate, drest, cell, scopes >>

\* The synchronous code has run to its end.
DEnd ==
    /\ pass = "sync"
    /\ pass' = "idle"
    /\ lastD' = [ kind |-> "end", recomputed |-> 0, stale |-> FALSE ]
    /\ lastRead' = Undef
    /\ UNCHANGED << counter, dispose, source, status, cleanups, microtasks,
                    nActivate, nDeactivate, drest, cell, scopes >>

\* Tracked computation c runs, for the first time or again: its cleanups run, then
\* its body reads the derived cell once.
DRun(c) ==
    /\ pass = "sync"
    /\ microtasks + cleanups[c] <= MaxMicrotasks
    /\ LET q == runCleanups([ counter |-> counter, dispose |-> dispose,
                              queued |-> microtasks, calls |-> 0 ], cleanups[c])
           qs == [ counter |-> q.counter, dispose |-> q.dispose ]
           k == nActivate + 1
           t == IF count(qs, k).activated
                THEN deriveTrack(cell, source, scopes, k)
                ELSE [ cell |-> cell, scopes |-> scopes, recomputed |-> 0 ]
           r == read(qs, TRUE, k, t.cell)
       IN /\ r.activated => nActivate < MaxActivations
          /\ counter' = r.counter
          /\ dispose' = r.dispose
          /\ microtasks' = q.queued
          /\ nActivate' = IF r.activated THEN k ELSE nActivate
          /\ cleanups' = [ cleanups EXCEPT ![c] = r.registered ]
          /\ lastRead' = r.value
          /\ cell' = t.cell
          /\ scopes' = t.scopes
          /\ lastD' = [ kind |-> IF r.activated THEN "activate" ELSE "run",
                        recomputed |-> t.recomputed,
                        stale |-> (r.activated /\ cell # source) ]
    /\ status' = [ status EXCEPT ![c] = "waiting" ]
    /\ UNCHANGED << source, nDeactivate, pass, drest >>

\* Computation c is disposed of: its cleanups run.
DDispose(c) ==
    /\ pass = "sync"
    /\ status[c] = "waiting"
    /\ cleanUp(c)
    /\ status' = [ status EXCEPT ![c] = "none" ]
    /\ lastD' = [ kind |-> "dispose", recomputed |-> 0, stale |-> FALSE ]
    /\ lastRead' = Undef
    /\ UNCHANGED << source, pass, nActivate, drest, cell, scopes >>

\* The derived cell is read outside any tracked computation.
DUntrackedRead ==
    /\ pass = "sync"
    /\ LET r == read(quantumState, FALSE, nActivate + 1, cell)
       IN /\ counter' = r.counter
          /\ dispose' = r.dispose
          /\ nActivate' = IF r.activated THEN nActivate + 1 ELSE nActivate
          /\ lastRead' = r.value
    /\ lastD' = [ kind |-> "read", recomputed |-> 0, stale |-> FALSE ]
    /\ UNCHANGED << source, status, cleanups, microtasks, pass, nDeactivate, drest,
                    cell, scopes >>

\* The source changes to v.
DSetSource(v) ==
    /\ pass = "sync"
    /\ v # source
    /\ source' = v
    /\ LET s == sourceChanged(cell, v, scopes)
       IN /\ cell' = s.cell
          /\ lastD' = [ kind |-> "source", recomputed |-> s.recomputed,
                        stale |-> FALSE ]
    /\ lastRead' = Undef
    /\ UNCHANGED << counter, dispose, status, cleanups, microtasks, pass, nActivate,
                    nDeactivate, drest, scopes >>

\* One queued microtask runs; the closure it may call disposes of a root.
DMicrotask ==
    /\ pass = "idle"
    /\ microtasks > 0
    /\ LET t == uncountTask(quantumState, FALSE, NoClosure)
       IN /\ counter' = t.counter
          /\ dispose' = t.dispose
          /\ nDeactivate' = IF t.called # NoClosure THEN nDeactivate + 1 ELSE nDeactivate
          /\ scopes' = IF t.called # NoClosure THEN deriveClosure(scopes, t.called)
                       ELSE scopes
    /\ microtasks' = microtasks - 1
    /\ lastD' = [ kind |-> "microtask", recomputed |-> 0, stale |-> FALSE ]
    /\ lastRead' = Undef
    /\ UNCHANGED << source, status, cleanups, pass, nActivate, drest, cell >>

\* ------------------------------------------------- derive over a quantum source
\* The decrements of the source that may be queued together.
MaxSrcTasks == 2

\* The private computation reading the source outside tracking.
privateRunUntracked(q, k) ==
    [ counter |-> q.counter, dispose |-> q.dispose, activated |-> FALSE,
      registered |-> 0 ]

\* createComputed(() => void setValue(source)): the setter calls source as an
\* updater while the computation is the listener, so the accessor of the source
\* quantum runs count() and registers onCleanup(uncount) in the computation.
privateRun(q, k) ==
    LET c == count(q, k)
    IN [ counter |-> c.counter, dispose |-> c.dispose, activated |-> c.activated,
         registered |-> 1 ]

\* The closure variables of the source quantum.
srcState == [ counter |-> srcCounter, dispose |-> srcDispose ]

\* derive(source): createSignal(untrack(source)) reads the source untracked.
InitChain ==
    /\ srcCounter = 0
    /\ srcDispose = NoClosure
    /\ srcCleanups = 0
    /\ srcTasks = 0
    /\ nSrcActivate = 0
    /\ nSrcDeactivate = 0

\* The private computation runs: a tracked read of the source.
PrivateRun ==
    LET r == privateRun(srcState, nSrcActivate + 1)
    IN /\ srcCounter' = r.counter
       /\ srcDispose' = r.dispose
       /\ srcCleanups' = r.registered
       /\ nSrcActivate' = IF r.activated THEN nSrcActivate + 1 ELSE nSrcActivate
       /\ UNCHANGED nSrcDeactivate

\* A task of the event loop starts, the microtasks of the last one having run.
UBegin ==
    /\ srcTasks = 0
    /\ DBegin
    /\ UNCHANGED << srcCounter, srcDispose, srcCleanups, srcTasks, nSrcActivate,
                    nSrcDeactivate >>

\* The synchronous code has run to its end.
UEnd ==
    /\ DEnd
    /\ UNCHANGED << srcCounter, srcDispose, srcCleanups, srcTasks, nSrcActivate,
                    nSrcDeactivate >>

\* Tracked computation c reads the derived cell; a read that activates it builds
\* the root, whose computation runs at once.
URun(c) ==
    /\ DRun(c)
    /\ IF scopes' # scopes
       THEN PrivateRun /\ UNCHANGED srcTasks
       ELSE UNCHANGED << srcCounter, srcDispose, srcCleanups, srcTasks, nSrcActivate,
                         nSrcDeactivate >>

\* Computation c is disposed of.
UDispose(c) ==
    /\ DDispose(c)
    /\ UNCHANGED << srcCounter, srcDispose, srcCleanups, srcTasks, nSrcActivate,
                    nSrcDeactivate >>

\* The derived cell is read outside any tracked computation.
UUntrackedRead ==
    /\ DUntrackedRead
    /\ UNCHANGED << srcCounter, srcDispose, srcCleanups, srcTasks, nSrcActivate,
                    nSrcDeactivate >>

\* The source changes to v: a live private computation is cleaned (its uncount
\* is queued) and runs again.
USetSource(v) ==
    /\ srcTasks < MaxSrcTasks
    /\ DSetSource(v)
    /\ IF scopes # { }
       THEN PrivateRun /\ srcTasks' = srcTasks + srcCleanups
       ELSE UNCHANGED << srcCounter, srcDispose, srcCleanups, srcTasks, nSrcActivate,
                         nSrcDeactivate >>

\* A queued decrement of the derived cell runs; if it disposes of the root, the
\* cleanup of the private computation queues the decrement of the source.
UMicrotask ==
    /\ DMicrotask
    /\ IF scopes' # scopes
       THEN /\ srcTasks' = srcTasks + srcCleanups
            /\ srcCleanups' = 0
            /\ UNCHANGED << srcCounter, srcDispose, nSrcActivate, nSrcDeactivate >>
       ELSE UNCHANGED << srcCounter, srcDispose, srcCleanups, srcTasks, nSrcActivate,
                         nSrcDeactivate >>

\* A queued decrement of the source runs.
SrcMicrotask ==
    /\ pass = "idle"
    /\ srcTasks > 0
    /\ LET t == uncountTask(srcState, FALSE, NoClosure)
       IN /\ srcCounter' = t.counter
          /\ srcDispose' = t.dispose
          /\ nSrcDeactivate' = IF t.called # NoClosure THEN nSrcDeactivate + 1
                               ELSE nSrcDeactivate
    /\ srcTasks' = srcTasks - 1
    /\ lastD' = [ kind |-> "srcTask", recomputed |-> 0, stale |-> FALSE ]
    /\ lastRead' = Undef
    /\ UNCHANGED << counter, dispose, source, status, cleanups, microtasks, pass,
                    nActivate, nDeactivate, drest, cell, scopes, srcCleanups,
                    nSrcActivate >>

\* ---------------------------------------------------------- specifications
\* The fetch state machine on its own: the demand counter stays as constructed.
NextFetched ==
    \/ Wind /\ UNCHANGED << qvars, svars, dvars, lvars, avars, bvars, pvars, uvars >>
    \/ Rerun /\ UNCHANGED << qvars, svars, dvars, lvars, avars, bvars, pvars, uvars >>
    \/ \E r \in 1 .. MaxRuns, x \in Val : Commit(r, x) /\ UNCHANGED << qvars, svars, dvars, lvars, avars, bvars, pvars, uvars >>
    \/ \E e \in Err : Throw(e) /\ UNCHANGED << qvars, svars, dvars, lvars, avars, bvars, pvars, uvars >>
    \/ Return /\ UNCHANGED << qvars, svars, dvars, lvars, avars, bvars, pvars, uvars >>
    \/ Dispose /\ UNCHANGED << qvars, svars, dvars, lvars, avars, bvars, pvars, uvars >>

InitF ==
    /\ InitFetched /\ InitQuantum /\ InitSubscription /\ InitDerive
    /\ source = 1 /\ initial = Undef /\ mode = "none"
    /\ InitLate /\ late = FALSE
    /\ InitAdapters /\ isDev = TRUE /\ equals = "strict"
    /\ InitBlinker /\ duration = 1
    /\ InitPulls /\ InitChain

SpecFetched == InitF /\ [][NextFetched]_vars

\* The demand counter on its own: the fetch record stays as constructed.
NextQuantum ==
    \/ BeginPass /\ UNCHANGED << fvars, svars, dvars, lvars, avars, bvars, pvars, uvars >>
    \/ EndPass /\ UNCHANGED << fvars, svars, dvars, lvars, avars, bvars, pvars, uvars >>
    \/ \E c \in Consumers : Create(c) /\ UNCHANGED << fvars, svars, dvars, lvars, avars, bvars, pvars, uvars >>
    \/ \E c \in Consumers : TrackedRead(c) /\ UNCHANGED << fvars, svars, dvars, lvars, avars, bvars, pvars, uvars >>
    \/ UntrackedRead /\ UNCHANGED << fvars, svars, dvars, lvars, avars, bvars, pvars, uvars >>
    \/ \E c \in Consumers : Finish(c) /\ UNCHANGED << fvars, svars, dvars, lvars, avars, bvars, pvars, uvars >>
    \/ \E c \in Consumers : RerunConsumer(c) /\ UNCHANGED << fvars, svars, dvars, lvars, avars, bvars, pvars, uvars >>
    \/ \E c \in Consumers : DisposeConsumer(c) /\ UNCHANGED << fvars, svars, dvars, lvars, avars, bvars, pvars, uvars >>
    \/ \E v \in Val : SetSource(v) /\ UNCHANGED << fvars, svars, dvars, lvars, avars, bvars, pvars, uvars >>
    \/ \E c \in Consumers \cup { 0 } : Microtask(c) /\ UNCHANGED << fvars, svars, dvars, lvars, avars, bvars, pvars, uvars >>

InitQ ==
    /\ InitQuantum /\ InitFetched /\ InitSubscription /\ InitDerive
    /\ source = 1 /\ latest = Undef /\ initial = Undef /\ mode = "none"
    /\ InitLate /\ late = FALSE
    /\ InitAdapters /\ isDev = TRUE /\ equals = "strict"
    /\ InitBlinker /\ duration = 1
    /\ InitPulls /\ InitChain

SpecQuantum == InitQ /\ [][NextQuantum]_vars

\* The subscription reconciler with the demand counter of its accessor.
NextSubscription ==
    \/ SBegin /\ UNCHANGED << fvars, dvars, lvars, avars, bvars, pvars, uvars >>
    \/ SEnd /\ UNCHANGED << fvars, dvars, lvars, avars, bvars, pvars, uvars >>
    \/ \E c \in Observers, u \in SVal \cup { Undef } : SRun(c, u) /\ UNCHANGED << fvars, dvars, lvars, avars, bvars, pvars, uvars >>
    \/ \E c \in Observers : SDispose(c) /\ UNCHANGED << fvars, dvars, lvars, avars, bvars, pvars, uvars >>
    \/ SUntrackedRead /\ UNCHANGED << fvars, dvars, lvars, avars, bvars, pvars, uvars >>
    \/ \E v \in SVal : Write(v) /\ UNCHANGED << fvars, dvars, lvars, avars, bvars, pvars, uvars >>
    \/ PullStart /\ UNCHANGED << fvars, dvars, lvars, avars, bvars, pvars, uvars >>
    \/ \E r \in SVal : PullResolve(r) /\ UNCHANGED << fvars, dvars, lvars, avars, bvars, pvars, uvars >>
    \/ Push /\ UNCHANGED << fvars, dvars, lvars, avars, bvars, pvars, uvars >>
    \/ \E u \in SVal : FeedUpdate(u) /\ UNCHANGED << fvars, dvars, lvars, avars, bvars, pvars, uvars >>
    \/ \E c \in Observers \cup { 0 } : SMicrotask(c) /\ UNCHANGED << fvars, dvars, lvars, avars, bvars, pvars, uvars >>

InitS ==
    /\ InitSubscription /\ InitQuantum /\ InitFetched /\ InitDerive
    /\ source = 1 /\ latest = Undef
    /\ InitLate /\ late = FALSE
    /\ InitAdapters /\ isDev = TRUE /\ equals = "strict"
    /\ InitBlinker /\ duration = 1
    /\ InitPulls /\ InitChain

SpecSubscription == InitS /\ [][NextSubscription]_vars

\* The derived demand cell with the demand counter of its accessor.
NextDerive ==
    \/ DBegin /\ UNCHANGED << fvars, svars, lvars, avars, bvars, pvars, uvars >>
    \/ DEnd /\ UNCHANGED << fvars, svars, lvars, avars, bvars, pvars, uvars >>
    \/ \E c \in Consumers : DRun(c) /\ UNCHANGED << fvars, svars, lvars, avars, bvars, pvars, uvars >>
    \/ \E c \in Consumers : DDispose(c) /\ UNCHANGED << fvars, svars, lvars, avars, bvars, pvars, uvars >>
    \/ DUntrackedRead /\ UNCHANGED << fvars, svars, lvars, avars, bvars, pvars, uvars >>
    \/ \E v \in Val : DSetSource(v) /\ UNCHANGED << fvars, svars, lvars, avars, bvars, pvars, uvars >>
    \/ DMicrotask /\ UNCHANGED << fvars, svars, lvars, avars, bvars, pvars, uvars >>

InitD ==
    /\ InitQuantum /\ InitDerive /\ InitFetched /\ InitSubscription
    /\ latest = Undef /\ initial = Undef /\ mode = "none"
    /\ InitLate /\ late = FALSE
    /\ InitAdapters /\ isDev = TRUE /\ equals = "strict"
    /\ InitBlinker /\ duration = 1
    /\ InitPulls /\ InitChain

SpecDerive == InitD /\ [][NextDerive]_vars

\* The fetch state machine over an eager or a late spool, with the reads of its
\* accessor and the cleanups its winch registers.
NextSpool ==
    \/ LWind /\ UNCHANGED << qvars, svars, dvars, avars, bvars, pvars, uvars >>
    \/ LRead /\ UNCHANGED << qvars, svars, dvars, avars, bvars, pvars, uvars >>
    \/ LRerun /\ UNCHANGED << qvars, svars, dvars, avars, bvars, pvars, uvars >>
    \/ Register /\ UNCHANGED << qvars, svars, dvars, avars, bvars, pvars, uvars >>
    \/ \E r \in 1 .. MaxSpoolRuns, x \in 1 .. MaxSpoolVal : LCommit(r, x) /\ UNCHANGED << qvars, svars, dvars, avars, bvars, pvars, uvars >>
    \/ \E e \in 1 .. MaxSpoolErr : LThrow(e) /\ UNCHANGED << qvars, svars, dvars, avars, bvars, pvars, uvars >>
    \/ LReturn /\ UNCHANGED << qvars, svars, dvars, avars, bvars, pvars, uvars >>
    \/ LDispose /\ UNCHANGED << qvars, svars, dvars, avars, bvars, pvars, uvars >>

InitL ==
    /\ InitFetched /\ InitQuantum /\ InitSubscription /\ InitDerive /\ InitLate
    /\ InitAdapters /\ isDev = TRUE /\ equals = "strict"
    /\ InitBlinker /\ duration = 1
    /\ InitPulls /\ InitChain
    /\ source = 1 /\ latest = Undef /\ initial = Undef /\ mode = "none"

SpecSpool == InitL /\ [][NextSpool]_vars

\* The constructions and calls of atom, createPair and granular.
NextAdapters ==
    \/ \E shape \in AtomShape : AtomNew(shape) /\ UNCHANGED << fvars, qvars, svars, dvars, lvars, bvars, pvars, uvars >>
    \/ \E shape \in PairShape, memoized \in BOOLEAN : CreatePairNew(shape, memoized) /\ UNCHANGED << fvars, qvars, svars, dvars, lvars, bvars, pvars, uvars >>
    \/ \E shape \in BlinkerShape : CreateBlinkerNew(shape) /\ UNCHANGED << fvars, qvars, svars, dvars, lvars, bvars, pvars, uvars >>
    \/ \E n \in 0 .. MaxArgs : \E args \in [ 1 .. n -> Num \cup { Undef } ] : AtomCall(args) /\ UNCHANGED << fvars, qvars, svars, dvars, lvars, bvars, pvars, uvars >>
    \/ \E src \in { 2 * n : n \in Num } \cup { FnInc } : PairSet(src) /\ UNCHANGED << fvars, qvars, svars, dvars, lvars, bvars, pvars, uvars >>
    \/ \E v \in Num \cup { FnInc, FnPush, Obj } : GranularSet(v) /\ UNCHANGED << fvars, qvars, svars, dvars, lvars, bvars, pvars, uvars >>
    \/ \E fn \in { FnInc, FnPush } : GranularMap(fn) /\ UNCHANGED << fvars, qvars, svars, dvars, lvars, bvars, pvars, uvars >>
    \/ \E fn \in { FnInc, FnPush } : GranularMod(fn) /\ UNCHANGED << fvars, qvars, svars, dvars, lvars, bvars, pvars, uvars >>

InitA ==
    /\ InitFetched /\ InitQuantum /\ InitSubscription /\ InitDerive /\ InitLate
    /\ InitAdapters
    /\ InitBlinker /\ duration = 1
    /\ InitPulls /\ InitChain
    /\ source = 1 /\ latest = Undef /\ initial = Undef /\ mode = "none" /\ late = FALSE

SpecAdapters == InitA /\ [][NextAdapters]_vars

\* The blinker: changes of its subject, the passing of time, and its timers.
NextBlinker ==
    \/ \E v \in 0 .. MaxSubject : Change(v) /\ UNCHANGED << fvars, qvars, svars, dvars, lvars, avars, pvars, uvars >>
    \/ Tick /\ UNCHANGED << fvars, qvars, svars, dvars, lvars, avars, pvars, uvars >>
    \/ Expire /\ UNCHANGED << fvars, qvars, svars, dvars, lvars, avars, pvars, uvars >>

InitB ==
    /\ InitFetched /\ InitQuantum /\ InitSubscription /\ InitDerive /\ InitLate
    /\ InitAdapters /\ InitBlinker /\ InitPulls /\ InitChain
    /\ source = 1 /\ latest = Undef /\ initial = Undef /\ mode = "none" /\ late = FALSE
    /\ isDev = TRUE /\ equals = "strict"

\* A derived cell over a source that is itself a quantum accessor.
NextChain ==
    \/ UBegin /\ UNCHANGED << fvars, svars, lvars, avars, bvars, pvars >>
    \/ UEnd /\ UNCHANGED << fvars, svars, lvars, avars, bvars, pvars >>
    \/ \E c \in Consumers : URun(c) /\ UNCHANGED << fvars, svars, lvars, avars, bvars, pvars >>
    \/ \E c \in Consumers : UDispose(c) /\ UNCHANGED << fvars, svars, lvars, avars, bvars, pvars >>
    \/ UUntrackedRead /\ UNCHANGED << fvars, svars, lvars, avars, bvars, pvars >>
    \/ \E v \in Val : USetSource(v) /\ UNCHANGED << fvars, svars, lvars, avars, bvars, pvars >>
    \/ UMicrotask /\ UNCHANGED << fvars, svars, lvars, avars, bvars, pvars >>
    \/ SrcMicrotask /\ UNCHANGED << fvars, svars, lvars, avars, bvars, pvars >>

InitU ==
    /\ InitQuantum /\ InitDerive /\ InitFetched /\ InitSubscription /\ InitLate
    /\ InitAdapters /\ InitBlinker /\ InitPulls /\ InitChain
    /\ latest = Undef /\ initial = Undef /\ mode = "none" /\ late = FALSE
    /\ isDev = TRUE /\ equals = "strict" /\ duration = 1

SpecChain == InitU /\ [][NextChain]_vars

\* Pulls in flight together, direct writes and pushes between them, and pulls that fail.
NextPulls ==
    \/ PBegin /\ UNCHANGED << fvars, dvars, lvars, avars, bvars, uvars >>
    \/ PEnd /\ UNCHANGED << fvars, dvars, lvars, avars, bvars, uvars >>
    \/ PPull /\ UNCHANGED << fvars, dvars, lvars, avars, bvars, uvars >>
    \/ \E id \in 1 .. MaxOverlap, r \in SVal \cup { Undef } : PResolve(id, r) /\ UNCHANGED << fvars, dvars, lvars, avars, bvars, uvars >>
    \/ \E id \in 1 .. MaxOverlap, e \in Err : PReject(id, e) /\ UNCHANGED << fvars, dvars, lvars, avars, bvars, uvars >>
    \/ \E e \in Err : PThrow(e) /\ UNCHANGED << fvars, dvars, lvars, avars, bvars, uvars >>
    \/ \E v \in SVal : PWrite(v) /\ UNCHANGED << fvars, dvars, lvars, avars, bvars, uvars >>
    \/ PPush /\ UNCHANGED << fvars, dvars, lvars, avars, bvars, uvars >>

InitP ==
    /\ InitFetched /\ InitQuantum /\ InitSubscription /\ InitDerive /\ InitLate
    /\ InitAdapters /\ InitBlinker /\ InitPulls /\ InitChain
    /\ source = 1 /\ latest = Undef /\ late = FALSE
    /\ isDev = TRUE /\ equals = "strict" /\ duration = 1

SpecPulls == InitP /\ [][NextPulls]_vars

SpecBlinker == InitB /\ [][NextBlinker]_vars

\* Time passes and a timer that is due runs: the event loop leaves neither undone.
SpecBlinkerLive ==
    /\ SpecBlinker
    /\ WF_vars(Tick /\ UNCHANGED << fvars, qvars, svars, dvars, lvars, avars, pvars, uvars >>)
    /\ WF_vars(Expire /\ UNCHANGED << fvars, qvars, svars, dvars, lvars, avars, pvars, uvars >>)

\* ------------------------------------------------------------------ claims
\* Fetch state machine (SpecFetched).

\* C1: a commit of a run that a later run has superseded is a no-op: it changes
\* neither state, latest, the accessor's value, error nor hasLatest, and notifies
\* no observer, whether it arrives before or after the commits of the later run.
C1_SupersededCommitNoOp ==
    [][ (lastOp'.kind = "commit" /\ superseded(lastOp'.run))
          => /\ UNCHANGED << state, latest, spool, error, hasLatest >>
             /\ seen' = << >> ]_vars

\* C1 witness: run r committed after a later run had started and had itself
\* committed another value, which is still the record's outcome.
C1_Witness ==
    /\ lastOp.kind = "commit"
    /\ superseded(lastOp.run)
    /\ ~disposed
    /\ state = "ready"
    /\ latest = lastGood
    /\ spool = lastGood
    /\ lastOp.val # latest

\* C7: a commit of the current run of a live record leaves state = ready,
\* latest = value and accessor = value, and observers are notified at most once,
\* of exactly that: none sees ready with the old latest or the old accessor value.
C7_CommitAtomic ==
    (lastOp.kind = "commit" /\ live(lastOp.run))
      => /\ state = "ready"
         /\ latest = lastOp.val
         /\ spool = lastOp.val
         /\ Len(seen) <= 1
         /\ \A i \in DOMAIN seen :
               /\ seen[i].state = "ready"
               /\ seen[i].latest = lastOp.val
               /\ seen[i].spool = lastOp.val

\* C7 witness: a commit of the current run has just notified the observers.
C7_Witness ==
    /\ lastOp.kind = "commit"
    /\ live(lastOp.run)
    /\ Len(seen) = 1
    /\ seen[1].state = "ready"
    /\ seen[1].spool = lastOp.val

\* C8: a raise of the current run of a live record sets state = errored and
\* error = the failure in one notification and changes neither latest nor the
\* accessor's value; a raise of a superseded run changes nothing.
C8_Failure ==
    [][ lastOp'.kind = "throw"
          => /\ live(lastOp'.run)
                  => /\ state' = "errored"
                     /\ error' = lastOp'.val
                     /\ UNCHANGED << latest, spool >>
                     /\ Len(seen') <= 1
                     /\ \A i \in DOMAIN seen' :
                           seen'[i].state = "errored" /\ seen'[i].error = lastOp'.val
             /\ superseded(lastOp'.run)
                  => /\ UNCHANGED << state, latest, error, spool, hasLatest >>
                     /\ seen' = << >> ]_vars

\* C9 as claimed: a run starts in refreshing if an earlier run committed or failed,
\* and in pending otherwise.
C9_RefreshingAfterAnyOutcome ==
    [][ gen' = gen + 1
          => state' = IF everCommitted \/ everErrored THEN "refreshing" ELSE "pending" ]_vars

\* C9 amended: a run starts in refreshing if and only if an earlier run committed a
\* value; a run that follows only failures starts in pending.
C9_RefreshingIffCommitted ==
    [][ gen' = gen + 1
          => state' = IF everCommitted THEN "refreshing" ELSE "pending" ]_vars

\* C9 witness: a run has started after a failure and no success, and is pending.
C9_Witness ==
    /\ lastOp.kind = "run"
    /\ gen > 1
    /\ everErrored
    /\ ~everCommitted
    /\ state = "pending"

\* Demand counter (SpecQuantum).

\* C2: a tracked read made while nothing is counted calls track() once and stores
\* the closure it returned; a tracked read made while something is counted calls
\* nothing and keeps the stored closure; every read returns the source's value.
C2_ActivateOnFirstTrackedRead ==
    [][ lastQ'.kind = "read"
          => /\ lastRead' = source
             /\ (lastQ'.tracked /\ counter = 0)
                  => nActivate' = nActivate + 1 /\ dispose' = nActivate + 1
             /\ (lastQ'.tracked /\ counter > 0)
                  => nActivate' = nActivate /\ dispose' = dispose
             /\ nDeactivate' = nDeactivate ]_vars

\* C2 witness: two computations have read the accessor, the second most recently,
\* and track() has been called once.
C2_Witness ==
    /\ lastQ.kind = "read"
    /\ lastQ.tracked
    /\ \A c \in Consumers : cleanups[c] > 0
    /\ lastRead = source
    /\ nActivate = 1
    /\ dispose = 1

\* C3: in a pass that began with the counter active, neither track() nor a closure
\* it returned is called, and none is called by the deferred decrements of that
\* pass if a computation was attached when the pass ended: detaching and
\* reattaching within the pass causes no deactivate/activate cycle.
C3_NoThrashing ==
    (passBase >= 0 /\ (pass = "sync" \/ endAttached))
      => nActivate + nDeactivate = passBase

\* C3 witness: in the last pass a computation reattached while every counted read
\* was awaiting its decrement, the decrements have all run since, and the first
\* activation is still the only one and has not been torn down.
C3_Witness ==
    /\ reattached
    /\ endAttached
    /\ passBase = 1
    /\ pass = "idle"
    /\ microtasks = 0
    /\ lastQ.kind = "microtask"
    /\ nActivate = 1
    /\ nDeactivate = 0
    /\ dispose = 1

C5_UntrackedReadPassThrough ==
    /\ (counter = 0 /\ dispose = NoClosure /\ nActivate = 0)
    /\ [][ /\ nActivate' # nActivate => lastQ'.tracked
           /\ (lastQ'.kind = "read" /\ ~lastQ'.tracked)
                => /\ UNCHANGED << counter, dispose, nActivate, nDeactivate,
                                   microtasks, cleanups >>
                   /\ lastRead' = source ]_vars

\* C5 witness: the counter has only been read outside tracked computations, after
\* the source changed, and track() has never been called.
C5_Witness ==
    /\ lastQ.kind = "read"
    /\ ~lastQ.tracked
    /\ \A c \in Consumers : status[c] = "none"
    /\ lastRead = source
    /\ source # 1
    /\ counter = 0
    /\ nActivate = 0

\* C6: the counter is never negative, and whenever no decrement is queued a
\* closure is stored if and only if the counter is above zero.
C6_TeardownIffActive ==
    /\ counter >= 0
    /\ microtasks = 0 => (dispose # NoClosure <=> counter > 0)

\* C10: state = ready implies latest is the value of the most recent commit of a
\* run that was not superseded, and state = errored implies error is the failure
\* of the most recent run that failed while not superseded.
C10_RecordInvariant ==
    /\ state = "ready" => latest = lastGood
    /\ state = "errored" => error = lastFail

\* Subscription reconciler (SpecSubscription).

\* A step that accepts a remote value: a pull that resolves, an update of the live
\* feed, or a read that starts the feed and is handed a value by handler.sub.
accepts(l) ==
    \/ l.kind \in { "pull", "feed" }
    \/ l.kind = "activate" /\ l.val # Undef

\* What the accepted value is reconciled to, given local and cache before the step.
reconciled(l, loc, cch) ==
    IF mode = "none" THEN l.val ELSE threeWay(l.val, loc, cch)

C12_PullReconcilesInOneBatch ==
    [][lastS'.kind = "pull" =>
        LET x == reconciled(lastS', local, cache)
        IN /\ local' = x
           /\ cache' = x
           /\ hasLocal'
           /\ mode # "none" => lastS'.calls = << << lastS'.val, local, cache >> >>
           /\ seenS' = IF local = x /\ cache = x THEN << >>
                       ELSE << [ local |-> x, cache |-> x ] >>]_vars

\* A pull resolved, the handler's reconcile was called, and both signals changed.
C12_Witness ==
    /\ lastS.kind = "pull"
    /\ Len(lastS.calls) = 1
    /\ lastS.calls[1][2] # local
    /\ lastS.calls[1][3] # cache
    /\ local = cache
    /\ Len(seenS) = 1
    /\ hasLocal

C14_PushBeforeInitNoOp ==
    [][lastS'.kind = "push" /\ ~everSet =>
        /\ sink' = << >>
        /\ UNCHANGED << local, cache, subscribed, detached >>]_vars

\* C14 amended: a push before any pull, live-feed update or direct write changes
\* none of local, cache, subscribed and detached; it does not call handler.set when
\* the subscription was constructed without an initial value or with a falsy one,
\* and calls it once with the initial value when that value is truthy.
C14_PushBeforeInitSendsTruthyInitial ==
    [][lastS'.kind = "push" /\ ~everSet =>
        /\ sink' = IF initial # Undef /\ initial # 0 THEN << initial >> ELSE << >>
        /\ UNCHANGED << local, cache, hasLocal, subscribed, detached, feeds >>]_vars

\* A push before anything set local, on a subscription constructed with a truthy value.
C14_Witness ==
    /\ lastS.kind = "push"
    /\ ~everSet
    /\ initial # Undef /\ initial # 0
    /\ sink = << initial >>

C16_WriteDetachesUntilAccept ==
    [][/\ lastS'.kind = "write" =>
              /\ local' = lastS'.val
              /\ cache' = cache
              /\ lastS'.val # cache => detached'
       /\ detached /\ ~detached' => accepts(lastS')]_vars

\* C16 amended: a direct write sets local only, cache stays; after a write of a
\* value other than cache detached() is true, and it stays true until a remote
\* value is accepted or local is written again, with the value of cache.
C16_WriteDetachesUntilAcceptOrWriteBack ==
    [][/\ lastS'.kind = "write" =>
              /\ local' = lastS'.val
              /\ cache' = cache
              /\ hasLocal'
              /\ detached' = (lastS'.val # cache)
       /\ detached /\ ~detached' =>
              \/ accepts(lastS')
              \/ lastS'.kind = "write" /\ lastS'.val = cache]_vars

\* A value other than the cached remote one has just been written.
C16_Witness ==
    /\ lastS.kind = "write"
    /\ cache # Undef
    /\ lastS.val # cache
    /\ local = lastS.val
    /\ detached

\* C17: subscribed() tells whether the live feed is on, and, once the deferred
\* decrements have run, the feed is on exactly while some tracked computation
\* observes the reader; untracked reads, writes, pulls and pushes never start it.
C17_FeedIffObserved ==
    /\ subscribed = (feeds # { })
    /\ Cardinality(feeds) <= 1
    /\ microtasks = 0 => ((feeds # { }) <=> \E c \in Consumers : cleanups[c] > 0)
    /\ lastS.kind \in { "read", "write", "get", "pull", "push" } /\ feeds # { } =>
           counter > 0

\* C18: while the live feed is on, an update u sets local and cache to
\* reconcile(u, local, cache) in one notification batch, as a pull does; so does
\* an update handler.sub delivers before it returns, and the read that started
\* the feed returns the reconciled value.
C18_FeedUpdateReconciles ==
    [][(lastS'.kind = "feed" \/ (lastS'.kind = "activate" /\ lastS'.val # Undef)) =>
        LET x == reconciled(lastS', local, cache)
        IN /\ local' = x
           /\ cache' = x
           /\ hasLocal'
           /\ feeds' # { }
           /\ mode # "none" => lastS'.calls = << << lastS'.val, local, cache >> >>
           /\ seenS' = IF local = x /\ cache = x THEN << >>
                       ELSE << [ local |-> x, cache |-> x ] >>
           /\ lastS'.kind = "activate" => lastRead' = x]_vars

\* The read that started the feed was handed a value and returned it.
C18_Witness ==
    /\ lastS.kind = "activate"
    /\ lastS.val # Undef
    /\ initial # lastS.val
    /\ Len(seenS) = 1
    /\ lastRead = lastS.val
    /\ local = lastS.val
    /\ cache = lastS.val
    /\ subscribed

\* Derived demand cell (SpecDerive).

\* No tracked computation holds a cleanup of the derived cell.
unattached == \A c \in Consumers : cleanups[c] = 0

\* C19 as stated: while no tracked consumer is attached, a change of the source
\* runs no computation and writes nothing to the internal cell, and reads keep
\* returning the last computed value until the cell is activated again.
C19_FrozenWhileUnattached ==
    [][unattached =>
        /\ lastD'.kind = "source" => lastD'.recomputed = 0 /\ cell' = cell
        /\ lastD'.kind = "read" => lastRead' = cell /\ cell' = cell]_vars

\* C19 amended: while no tracked consumer is attached and no deferred decrement is
\* pending, a change of the source runs no computation and writes nothing to the
\* internal cell, and reads keep returning the last computed value until the cell
\* is activated again.
C19_FrozenOnceDeactivated ==
    [][unattached /\ microtasks = 0 =>
        /\ lastD'.kind = "source" => lastD'.recomputed = 0 /\ cell' = cell
        /\ lastD'.kind = "read" => lastRead' = cell /\ cell' = cell
        /\ lastD'.kind # "activate" => cell' = cell]_vars

\* The source changed after the cell had been activated and deactivated: the cell
\* keeps the old value.
C19_Witness ==
    /\ lastD.kind = "source"
    /\ lastD.recomputed = 0
    /\ nDeactivate > 0
    /\ unattached
    /\ microtasks = 0
    /\ cell # source

\* C20: while a tracked consumer is attached the internal cell equals the source;
\* each activation builds one private scope and the closure kept for deactivation
\* disposes of it; the read that activates the cell returns the source's current
\* value, also after a frozen period.
C20_CellFollowsSourceWhileAttached ==
    /\ ~unattached => cell = source
    /\ scopes = IF dispose = NoClosure THEN { } ELSE { dispose }
    /\ Cardinality(scopes) = nActivate - nDeactivate
    /\ lastD.kind = "activate" => lastD.recomputed = 1 /\ lastRead = source

\* The cell was activated again while it held an old value of the source.
C20_Witness ==
    /\ lastD.kind = "activate"
    /\ lastD.stale
    /\ nDeactivate > 0
    /\ lastRead = source
    /\ cell = source
    /\ scopes = { dispose }

\* C21: a late spool does not call its winch, and the state stays
\* "unresolved", until the accessor is first read; that first read starts the
\* first run; no later read starts a run (only a rerun of the computation
\* does), and the first run is the one an eager spool starts when it is created.
C21_LateStartsOnFirstRead ==
    [][ /\ (late /\ init) => (gen = 0 /\ state = "unresolved")
        /\ (late' /\ init') => (gen' = 0 /\ state' = "unresolved")
        /\ lastL' = "read"
           => IF late /\ init
              THEN /\ ~init' /\ gen' = 1 /\ stack' = << 1 >>
                   /\ state' = "pending" /\ events' = << << "winch", 1 >> >>
              ELSE UNCHANGED fvars /\ events' = << >>
        /\ (~late /\ gen = 0)
           => /\ lastL' = "wind" /\ gen' = 1 /\ stack' = << 1 >>
              /\ state' = "pending" /\ events' = << << "winch", 1 >> >>
        /\ (gen >= 1 /\ gen' # gen) => lastL' = "rerun" ]_vars

\* A late spool was read again after the read that started its first run.
C21_Witness ==
    /\ late /\ ~init
    /\ lastL = "read" /\ got = readings
    /\ gen = 1 /\ state = "ready"

\* C22: before the first run the state is "unresolved"; when the winch of the
\* first run commits v during its call and returns, the state is "ready" and
\* latest and the accessor hold v.
C22_SyncCommitEndsReady ==
    [][ /\ gen = 0 => state = "unresolved"
        /\ ( /\ lastL = "commit" /\ lastOp.run = 1
             /\ gen = 1 /\ stack = << 1 >> /\ ~disposed
             /\ lastL' = "return" )
           => /\ state' = "ready"
              /\ latest' = lastOp.val
              /\ spool' = lastOp.val
              /\ late => got' = << lastOp.val, "ready", error, lastOp.val >> ]_vars

\* The first run has returned after a commit made during its call.
C22_Witness ==
    /\ lastL = "return" /\ gen = 1 /\ stack = << >> /\ ~disposed
    /\ state = "ready" /\ latest \in Val /\ spool = latest

\* C23: a failure of the winch leaves neither the computation nor a read: no
\* exception escapes, a read returns the accessor, state, error and latest
\* as they are, and a run that is not superseded still commits to "ready".
C23_FailureIsContained ==
    /\ escaped = Undef
    /\ got # << >> => got = readings
    /\ (lastL = "commit" /\ ~invalided[lastOp.run])
       => (state = "ready" /\ latest = lastOp.val /\ spool = lastOp.val)

\* After a failed run a later run committed and the members were read.
C23_Witness ==
    /\ everErrored /\ error \in Err
    /\ gen = 2 /\ lastGood \in Val /\ state = "ready"
    /\ lastL = "read" /\ got = << spool, "ready", error, latest >>

\* In one step, every cleanup that runs does so before the winch is called.
ordered(ev) ==
    \A i, j \in DOMAIN ev :
        (ev[i][1] = "cleanup" /\ ev[j][1] = "winch") => i < j

\* C24: the cleanup a winch registered runs exactly once, when the computation
\* next reruns (or is disposed of), and in that step before the next winch is
\* called; until then it has not run.
C24_CleanupOnceBeforeNextWinch ==
    /\ \A r \in 1 .. MaxRuns :
          /\ torn[r] <= 1
          /\ regAt[r] < 0 => torn[r] = 0
          /\ regAt[r] >= 0 => torn[r] = (IF regAt[r] < epoch THEN 1 ELSE 0)
    /\ ordered(events)

\* The cleanup of the first run ran in the rerun that superseded it.
C24_Witness ==
    /\ lastL = "rerun" /\ gen = 2
    /\ regAt[1] = 1 /\ torn[1] = 1
    /\ events = << << "cleanup", 1 >>, << "cleanup", 0 >>, << "winch", 2 >> >>

\* C25: once every tracked consumer that read the counter has been disposed of
\* and every deferred decrement has run, the count is 0, no closure is stored,
\* and every activation has had its teardown.
C25_AllReleasedWhenQuiescent ==
    (unattached /\ microtasks = 0)
        => (counter = 0 /\ dispose = NoClosure /\ nActivate = nDeactivate)

\* Adapters (SpecAdapters).

\* C26: in a development build, atom given something that is not an array or
\* a pair whose getter or setter is not a function, and createPair and
\* createBlinker given an argument of the wrong type, raise an error in the
\* call itself, before any atom, memo or signal is created and before any
\* argument is called.
C26_DevChecksRaiseBeforeCreation ==
    (isDev /\ lastA.kind \in { "atom", "createPair", "createBlinker" }
           /\ lastA.shape # "ok")
        => (thrown /\ created = 0 /\ calls = << >>)

\* atom was given a pair whose setter is not a function, in a development build.
C26_Witness ==
    /\ isDev
    /\ lastA.kind = "atom" /\ lastA.shape = "setterNotFn"
    /\ thrown /\ created = 0

\* C27: an atom called with no argument calls the getter and returns its
\* result, the setter is not called; called with one argument or more, an
\* explicit undefined included, it calls the setter with all of them and
\* returns its result, the getter is not called.
C27_AtomDispatchesOnArgumentCount ==
    lastA.kind = "call"
        => IF Len(lastA.args) = 0
           THEN /\ calls = << << "getter", << >> >> >>
                /\ ret = lastA.before
                /\ countSig = lastA.before
           ELSE /\ calls = << << "setter", lastA.args >> >>
                /\ ret = lastA.args[1]
                /\ countSig = lastA.args[1]

\* The atom was called with a single explicit undefined.
C27_Witness ==
    /\ lastA.kind = "call" /\ lastA.args = << Undef >>
    /\ lastA.before # Undef
    /\ calls = << << "setter", << Undef >> >> >>
    /\ countSig = Undef

\* C28: the setter of a pair given a literal calls the writer once with it and
\* returns it; given a function it applies it to the current value of the getter,
\* read untracked, calls the writer once with the result and returns the result;
\* with double = count * 2 and the writer count := x / 2, x => x + 2 from
\* count 0 gives double 2 and count 1.
C28_PairSetterWritesOnce ==
    lastA.kind = "pairSet"
        => LET src == lastA.args[1]
               value == IF isFunction(src) THEN (lastA.before * 2) + 2 ELSE src
           IN /\ ret = value
              /\ { i \in DOMAIN calls : calls[i][1] = "writer" } = { Len(calls) }
              /\ calls[Len(calls)] = << "writer", << value >> >>
              /\ Len(calls) = IF isFunction(src) THEN 2 ELSE 1
              /\ isFunction(src) => calls[1] = << "get", << "untracked" >> >>
              /\ countSig * 2 = value

\* setDouble(x => x + 2) was called with count 0.
C28_Witness ==
    /\ lastA.kind = "pairSet" /\ lastA.args = << FnInc >> /\ lastA.before = 0
    /\ ret = 2 /\ countSig = 1

\* C30: set(v) stores v as it is, a function included, and calls nothing;
\* map(fn) stores fn(current) and returns it; mod(fn) calls fn once on the
\* current value, returns its result and writes the current value back, so
\* that the equality policy of the signal alone decides the notification.
C30_GranularMembers ==
    LET arg == lastA.args[1]
        a == apply(arg, lastA.before, lastA.args[2])
    IN /\ lastA.kind = "set"
          => /\ gval = arg
             /\ calls = << >>
             /\ gobj = lastA.args[2]
             /\ notified = ~equal(equals, lastA.before, arg)
       /\ lastA.kind = "map"
          => /\ calls = << << arg, << lastA.before >> >> >>
             /\ ret = a.res
             /\ gval = a.res
       /\ lastA.kind = "mod"
          => /\ calls = << << arg, << lastA.before >> >> >>
             /\ ret = a.res
             /\ gval = lastA.before
             /\ gobj = a.obj
             /\ notified = ~equal(equals, lastA.before, lastA.before)

\* set stored a function in a signal that held a number.
C30_Witness ==
    /\ lastA.kind = "set" /\ isFunction(lastA.args[1])
    /\ lastA.before \in Num
    /\ gval = lastA.args[1] /\ notified

\* Blinker (SpecBlinkerLive).

\* What a step of the blinker leaves: a change of the subject leaves the flag
\* true and one timer, just started, and calls setFlagged(true) only if the flag
\* was false (it clears the pending timer otherwise); the flag goes from true to
\* false only when a timer runs, a full duration after the last change.
blinkerStep ==
    /\ lastB.kind = "change"
       => /\ flagged /\ timers = { 0 }
          /\ lastB.set = ~lastB.wasFlagged
          /\ lastB.cleared = lastB.wasFlagged
    /\ lastB.kind = "same" => flagged = lastB.wasFlagged
    /\ lastB.kind = "expire" => ~flagged
    /\ (lastB.wasFlagged /\ ~flagged)
       => (lastB.kind = "expire" /\ sinceChange >= duration)

\* C29: a change of the subject makes the flag true; a change while it is true
\* restarts the timer and does not set the flag again; the flag is never reset
\* earlier than `duration` after the last change; once the changes have stopped
\* the flag is eventually false, for good.
C29_BlinkerFlagFollowsChanges ==
    /\ []blinkerStep
    /\ <>[](~flagged)

\* The subject changed while the flag was true: the timer was started again.
C29_Witness ==
    /\ lastB.kind = "change" /\ lastB.wasFlagged /\ lastB.cleared /\ ~lastB.set
    /\ flagged /\ timers = { 0 } /\ nChanges >= 2

\* Fetch state machine, continued.

\* C31: every commit of a run that is not superseded applies, the first and the
\* later ones alike: it leaves state = ready and latest and the accessor at the
\* committed value; a record that is pending or refreshing leaves that state only
\* by a commit, a failure or the start of a run (nothing times out), and the
\* return of the winch changes nothing.
C31_EveryCommitApplies ==
    [][ /\ (lastOp'.kind = "commit" /\ ~invalided[lastOp'.run])
           => /\ state' = "ready"
              /\ latest' = lastOp'.val
              /\ spool' = lastOp'.val
              /\ commits' # "none"
              /\ commits # "none" => commits' = "many"
        /\ (state \in { "pending", "refreshing" } /\ state' # state)
           => lastOp'.kind \in { "commit", "throw", "run" }
        /\ lastOp'.kind = "return" => UNCHANGED << state, latest, spool >> ]_vars

\* The current run has committed a second time.
C31_Witness ==
    /\ commits = "many"
    /\ lastOp.kind = "commit" /\ live(lastOp.run) /\ lastOp.applied
    /\ state = "ready" /\ latest = lastOp.val /\ spool = lastOp.val
    /\ Len(seen) = 1

\* C32: the step that supersedes a run, and the disposal of the computation,
\* reset the accessor to undefined and leave latest as it is (the reset is part
\* of the step that starts the next run); hence while the record is refreshing
\* the accessor is undefined and latest is the last committed value.
C32_AccessorResetLatestKept ==
    [][ /\ (gen >= 1 /\ gen' = gen + 1) => (spool' = Undef /\ latest' = latest)
        /\ lastOp'.kind = "dispose" => (spool' = Undef /\ latest' = latest)
        /\ state' = "refreshing"
           => (spool' = Undef /\ everCommitted' /\ latest' = lastGood') ]_vars

\* A run that follows a commit has started: refreshing, with the accessor empty.
C32_Witness ==
    /\ lastOp.kind = "run" /\ gen >= 2
    /\ state = "refreshing"
    /\ spool = Undef /\ latest \in Val /\ latest = lastGood

\* C33: once the first run has started the state is never "unresolved" again;
\* once a run has committed the state is never "pending" again, nor is any
\* observer notified of it; every run that starts after a commit shows
\* "refreshing", whether or not runs in between failed.
C33_StateOrdering ==
    /\ gen >= 1 => state # "unresolved"
    /\ \A i \in DOMAIN seen : seen[i].state # "unresolved"
    /\ everCommitted
       => /\ state # "pending"
          /\ \A i \in DOMAIN seen : seen[i].state # "pending"
          /\ lastOp.kind = "run" => state = "refreshing"

\* The third run started after a commit and a later failure: it shows refreshing.
C33_Witness ==
    /\ lastOp.kind = "run" /\ gen = 3
    /\ everCommitted /\ everErrored
    /\ lastFail # Undef /\ error = lastFail
    /\ state = "refreshing"

\* Demand counter, continued (SpecQuantum).

\* C34: the activations not yet torn down are 0 or 1, and exactly the one whose
\* closure is stored: no closure that track() returned is called twice or
\* dropped without being called, also when the closure, while it is called,
\* makes a tracked computation read the accessor.
C34_ActivationBalance ==
    /\ nActivate - nDeactivate \in { 0, 1 }
    /\ nActivate - nDeactivate = (IF dispose = NoClosure THEN 0 ELSE 1)

\* Subscription reconciler: pulls in flight (SpecPulls).

C36_FailedPullChangesNothing ==
    [][ /\ lastS'.kind \in { "reject", "throw" }
           => /\ reported' = lastS'.val /\ reported' \in Err
              /\ UNCHANGED << local, cache, detached, subscribed, hasLocal >>
              /\ push(subSignals, hasLocal) = push(subSignals', hasLocal')
        /\ (lastS.kind \in { "reject", "throw" } /\ lastS'.kind = "push" /\ ~hasLocal)
           => sink' = << >> ]_vars

\* push() was called after a pull had failed, and sent nothing.
C36_Witness ==
    /\ lastS.kind = "push" /\ sink = << >>
    /\ resolved # << >> /\ ~hasLocal /\ ~everSet

\* C37: with derive over a demand-counted source, the source is active whenever
\* the derived cell is active (its private computation is one tracked reader of
\* the source), it is still active after the derived cell was deactivated only
\* while a decrement of its own is queued, and it is inactive once that
\* decrement has run; it is never activated while the derived cell has had no
\* consumer.
C37_SourceFollowsDerived ==
    /\ (srcDispose # NoClosure) <=> (srcCounter > 0)
    /\ srcCounter = srcCleanups + srcTasks
    /\ srcCleanups = (IF scopes # { } THEN 1 ELSE 0)
    /\ scopes # { } => srcDispose # NoClosure
    /\ (scopes = { } /\ srcTasks = 0) =>
          (srcDispose = NoClosure /\ nSrcActivate = nSrcDeactivate)
    /\ nSrcActivate - nSrcDeactivate = (IF srcDispose # NoClosure THEN 1 ELSE 0)
    /\ nSrcActivate <= nActivate
    /\ nActivate = 0 => (nSrcActivate = 0 /\ srcDispose = NoClosure)

\* The derived cell was deactivated, and the decrement of the source that its
\* disposal queued has run and deactivated the source.
C37_Witness ==
    /\ lastD.kind = "srcTask"
    /\ scopes = { }
    /\ nDeactivate >= 1
    /\ nSrcActivate >= 1
    /\ nSrcDeactivate = nSrcActivate
    /\ srcDispose = NoClosure

====
